---- MODULE Spec2Model ----
(***************************************************************************)
(* ngbuild core.                                                           *)
(*                                                                         *)
(* Spec: the build supervisor of src/core/build.go (build.Start,           *)
(* build.runBuildSync, build.buildFinished, build.Stop, build.ExitCode),   *)
(* with the parts of the pipe multiplexer (the Done channel, the read      *)
(* loops, stdpipes.Close) and of the app bus (app.SendEvent) it drives.    *)
(* One build is modelled.  Time is counted in whole seconds and only       *)
(* while the supervision loop waits in its select.                         *)
(*                                                                         *)
(* MuxSpec, Mux2Spec: one stream of the pipe multiplexer with its readers, *)
(* in the one-stream form of src/unnamed/part_005 and in the two-stream    *)
(* form of src/core/stdpipes.go.                                           *)
(*                                                                         *)
(* BusSpec: the event bus (appbus) of one app.                             *)
(*                                                                         *)
(* AppSpec: the builds of one app and the NewBuild calls that register     *)
(* them (app.NewBuild, app.GetBuild, build.NewBuild, build.History).       *)
(*                                                                         *)
(* RefSpec: the reference count of one build and its workspace.            *)
(*                                                                         *)
(* ComposeSpec: the apps GetApps composes from the registered              *)
(* integrations.                                                           *)
(*                                                                         *)
(* CacheSpec: the persistent cache written by StoreCache.                  *)
(*                                                                         *)
(* TokenSpec: the goroutines that call generateToken.                      *)
(*                                                                         *)
(* ListenSpec: Spec with a listener for the build's complete topic.        *)
(*                                                                         *)
(* AppBusSpec: app.NewBuild with the coreloop of the app's bus and its     *)
(* callbacks, the channel of the bus counted up to its capacity.           *)
(***************************************************************************)
EXTENDS Integers, Sequences, FiniteSets, TLC

(* ------------------------------ bounds --------------------------------- *)
\* concurrent callers of Start() on the build
NumStart == 2
\* the clock since the supervision loop was entered saturates here
MaxTime == 7
\* the count of emitted /log/ topics saturates here
MaxLog == 1
\* longest list of integrations of a build config
MaxIntegrations == 2
\* readers attached to one pipe multiplexer
NumReaders == 2
\* bytes the source of a multiplexer produces in all
MaxBytes == 3
\* bytes one Read of the source returns at most
MaxChunk == 2
\* len(p) of the buffer a caller hands to stdreader.Read, at most
MaxP == 2
\* AddListener calls that register a listener on one bus
MaxHandlers == 3
\* topics accepted by Emit on one bus
MaxEmit == 2
\* the goroutines that call NewBuild on one app
NumCallers == 2
\* the builds registered in one app
MaxBuilds == 3
\* the goroutines that hold references to one build
NumHolders == 2
\* the Ref and Unref calls on one build
MaxRefCalls == 5
\* the concurrent generateToken calls
NumGenerators == 3
\* the readings of the clock, in nanoseconds
MaxNano == 2
\* the modulus of the token counter: 2^64 in the program, here a power of
\* two above NumGenerators
CtrModulus == 8
\* the goroutines that call StoreCache
NumStorers == 2
\* the StoreCache calls
MaxStores == 3
\* the app directories GetApps finds
MaxApps == 3
\* the modulus of the reference counter: 2^64 in the program, here a power
\* of two above MaxRefCalls, so that the counter wraps only below zero
RefModulus == 8

(* ------------------------- program constants --------------------------- *)
buildStateNull == 0
buildStateWaitingForProvisioning == 2
buildStateStarted == 4
buildStateFinished == 8
\* time.Second * 5, the zombie tick of the supervision loop
ZombieTick == 5
\* time.Minute * 30 in seconds, the default deadline
DefaultDeadline == 1800
\* capacity of stdpipes.Done
DoneCap == 1
\* capacity of appbus.events
EventsCap == 128
\* exit codes set by the supervisor
CodeProvision == 501
CodeStopFailed == 500
CodeLostHandle == 505
CodeChildFailed == 1
CodeSuccess == 0

\* the configured deadlines, in seconds: below 1 ms (written 0), and shorter
\* than, equal to and longer than the zombie tick
Deadlines == {0, ZombieTick - 1, ZombieTick, ZombieTick + 1}

Starters == 1..NumStart
\* the callers of Stop(): the deadline case of the supervision loop, and a
\* client of the Build interface (an integration cancelling the build)
Supervisor == "supervisor"
Client == "client"
Stoppers == {Supervisor, Client}
Pipes == {"stdout", "stderr"}
Readers == 1..NumReaders
\* The source's stream: its k-th byte is written k, so that a gap, a
\* duplicate or a reordering shows in what a reader received (the
\* multiplexer copies bytes and never looks at them).
Stream == [k \in 1..MaxBytes |-> k]

\* errors
ErrNil == "nil"
ErrProcessAlreadyStarted == "process-already-started"
ErrProcessAlreadyFinished == "process-already-finished"
ErrProcessNotFinished == "process-not-finished"
ErrOS == "os-error"

VARIABLES
  state,        \* build.state
  exitCode,     \* build.exitCode
  bcmd,         \* build.cmd: "nil" or "set"
  procSet,      \* cmd.Process # nil (the child was launched)
  stdpipes,     \* build.stdpipes # nil
  mu,           \* the write lock of build.m is held
  cfgDeadline,  \* build.config.Deadline, seconds (0: below 1 ms)
  deadline,     \* config.Deadline of the run-loop's snapshot
  emitted,      \* lifecycle topics sent on the bus, in send order
  nlog,         \* /log/ topics sent on the bus (saturating)
  pcStart,      \* position of each Start() caller
  retStart,     \* the error the Start() call in progress returns
  okStarts,     \* Start() calls that returned nil (saturating at 2)
  pcStop,       \* position of each Stop() caller
  stopErr,      \* the error b.Stop() returned to the supervision loop
  pcRun,        \* position of the run goroutine
  runErr,       \* the error runBuildSync returns
  child,        \* child process: "none", "running", "zombie", "reaped"
  childCode,    \* exit status of the child: 0 or 1 (any non-zero)
  signalled,    \* SIGTERM was sent to the process group
  srcOpen,      \* per pipe: the source has not reported EOF / error
  closedFlag,   \* per pipe: stdoutClosed / stderrClosed
  pcRL,         \* per pipe: position of readLoop
  doneChan,     \* messages buffered in stdpipes.Done
  sinceSel,     \* seconds since the current select was entered
  sinceLoop,    \* seconds since the supervision loop was entered
  dlStopInvoked,\* the supervisor has invoked Stop() for the deadline
  everFinished  \* the state has been set to finished at least once

\* one stream of a pipe multiplexer with its readers
VARIABLES
  readCache,    \* stdpipes.readCache: the bytes written so far
  cacheSize,    \* stdpipes.cacheSize
  readClosed,   \* stdpipes.readClosed > 0
  pcLoop,       \* position of readLoop
  loopBuf,      \* buf[:n] of the source Read readLoop has not written yet
  loopErr,      \* err of the last source Read: "nil", "EOF", "error"
  pm,           \* holder of stdpipes.m across blocking calls (0: free)
  waitL,        \* holder of the condition's lock readWait.L (0: free)
  notify,       \* readers in the notify list of the condition
  born,         \* per reader: "no", or when NewReader made it
  position,     \* stdreader.position
  received,     \* per reader: the bytes its Reads have returned, in order
  pcReader,     \* per reader: position inside Read / GetCache
  lastRead,     \* per reader: what its last Read returned
  sawEOF        \* per reader: a Read has returned (0, EOF)

muxVars == <<readCache, cacheSize, readClosed, pcLoop, loopBuf, loopErr, pm,
             waitL, notify, born, position, received, pcReader, lastRead,
             sawEOF>>
loopVars == <<readCache, cacheSize, readClosed, pcLoop, loopBuf, loopErr>>
readerVars == <<born, position, received, lastRead, sawEOF>>

supervisorVars ==
  <<state, exitCode, bcmd, procSet, stdpipes, mu, cfgDeadline, deadline,
    emitted, nlog, pcStart, retStart, okStarts, pcStop, stopErr, pcRun,
    runErr, child, childCode, signalled, srcOpen, closedFlag, pcRL,
    doneChan, sinceSel, sinceLoop, dlStopInvoked, everFinished>>

\* the event bus of one app
VARIABLES
  listeners,    \* appbus.listeners: pattern source -> handler ids, in list order
  events,       \* appbus.events: the queued topics
  busDone,      \* messages buffered in appbus.Done
  busClosed,    \* appbus.closed > 0
  handlerctr,   \* appbus.handlerctr
  pcBus,        \* position of coreloop: "select", "fire", "exited", ...
  fireTopic,    \* fireEvent: the topic being dispatched
  pending,      \* fireEvent: the calls of callbacks still to make
  ndeq,         \* topics coreloop has received from events
  sent,         \* the topics Emit put on events, in order
  calls,        \* the callbacks invoked, in order
  removed,      \* the handlers for which RemoveHandler has returned
  addErr,       \* the error of the last AddListener
  inflight,     \* topics of the Emit calls past the test of the closed flag
  adding,       \* sources of the AddListener calls past that test
  dropped       \* topics of the Emit calls that returned at that test

busVars == <<listeners, events, busDone, busClosed, handlerctr, pcBus,
             fireTopic, pending, ndeq, sent, calls, removed, addErr,
             inflight, adding, dropped>>
\* the bus's variables coreloop does not write
clientVars == <<listeners, handlerctr, sent, removed, addErr>>

\* the supervisor's variables but the Done channel of its stdpipes
supervisorButDone ==
  <<state, exitCode, bcmd, procSet, stdpipes, mu, cfgDeadline, deadline,
    emitted, nlog, pcStart, retStart, okStarts, pcStop, stopErr, pcRun,
    runErr, child, childCode, signalled, srcOpen, closedFlag, pcRL,
    sinceSel, sinceLoop, dlStopInvoked, everFinished>>

\* an app and the NewBuild calls on it (app.NewBuild, build.NewBuild)
VARIABLES
  builds,       \* app.builds: group -> the builds registered under it
  am,           \* the caller that holds app.m for writing, 0 when it is free
  call,         \* each caller's NewBuild call: its position and its locals
  queued,       \* the topics in the channel of the app's bus, counted
  pcHistory,    \* the group a GetBuildHistory call is reading, "" when none is
  pcDispatch    \* the coreloop of the app's bus: in its select or a callback

appVars == <<builds, am, call, queued, pcHistory, pcDispatch>>

\* the reference count of a build and its workspace (build.Ref, build.Unref)
VARIABLES
  ref,            \* build.ref, a uint64
  buildDirectory, \* build.buildDirectory, "" when there is none
  onDisk,         \* the workspace directories that exist
  pcUnref,        \* each goroutine's position in Unref
  zeroed,         \* whether the goroutine's Remove() left the count at zero
  refCalls        \* the Ref and Unref calls made so far

refVars == <<ref, buildDirectory, onDisk, pcUnref, zeroed, refCalls>>

\* the composition of the apps (GetApps, GetIntegrations)
VARIABLES
  globalIntegrationsCache, \* the backing array of the registered integrations
  apps                     \* the apps composed so far: allow-list and slice

composeVars == <<globalIntegrationsCache, apps>>

\* the persistent cache (StoreCache)
VARIABLES
  cache,          \* the map in memory
  cacheFile,      \* the map last written to ngbuild.cache
  cacheSyncCheck, \* the flag of a write in progress
  cacheSyncLock,  \* the goroutine that holds cacheSyncLock, 0 when free
  cacheReaders,   \* the goroutines that hold cacheLock for reading
  pcStore,        \* each goroutine's position in StoreCache
  storeArgs,      \* the key and the data of each goroutine's call
  storeCalls      \* the StoreCache calls made so far

cacheVars == <<cache, cacheFile, cacheSyncCheck, cacheSyncLock, cacheReaders,
               pcStore, storeArgs, storeCalls>>

\* the token generator (generateToken)
VARIABLES
  ctr,          \* the counter, a uint64
  pcGen,        \* each goroutine's position in generateToken
  genTime,      \* the time each call wrote to its hasher
  genCtr,       \* the counter value each call wrote to its hasher
  ids           \* the token each call returned, "" before it has

tokenVars == <<ctr, pcGen, genTime, genCtr, ids>>

\* the listeners of the build's lifecycle topics
VARIABLES
  heard         \* the complete topics dispatched to the listener so far

listenVars == <<heard>>

\* the times of the build (build.BuildTime)
VARIABLES
  buildStartTime, \* build.buildStartTime
  buildEndTime    \* build.buildEndTime

timeVars == <<buildStartTime, buildEndTime>>

\* the state of the other parts of package core but the times of the build
coreButTime == <<appVars, refVars, composeVars, cacheVars, tokenVars,
                 listenVars>>
\* the state of the other parts of package core
coreVars == <<coreButTime, timeVars>>

\* what the steps of the supervisor leave alone
outsideBuild == <<muxVars, busVars, coreVars>>
\* what the steps of the supervisor that read the clock leave alone
outsideBuildButTime == <<muxVars, busVars, coreButTime>>
\* what the steps of the bus leave alone
outsideBus == <<supervisorVars, muxVars, coreVars>>
\* the Emit and AddListener calls between their test of the closed flag and
\* their effect, and the Emit calls the test turned away
callVars == <<inflight, adding, dropped>>
\* what the steps of a multiplexer leave alone
outsideMux == <<supervisorVars, busVars, coreVars>>
outsideMuxButDone == <<supervisorButDone, busVars, coreVars>>
\* what the steps of an app leave alone
outsideApp == <<supervisorVars, muxVars, busVars, refVars, composeVars,
                cacheVars, tokenVars,
    listenVars, timeVars>>
\* what StoreCache leaves alone
outsideCache == <<supervisorVars, muxVars, busVars, appVars, refVars,
                  composeVars, tokenVars,
    listenVars, timeVars>>
\* what GetApps leaves alone
outsideCompose == <<supervisorVars, muxVars, busVars, appVars, refVars,
                    cacheVars, tokenVars,
    listenVars, timeVars>>
\* what Ref, Unref and the provisioning of the workspace leave alone
outsideRef == <<supervisorVars, muxVars, busVars, appVars, composeVars,
                cacheVars, tokenVars,
    listenVars, timeVars>>
\* what generateToken leaves alone
outsideToken == <<supervisorVars, muxVars, busVars, appVars, refVars,
                  composeVars, cacheVars,
    listenVars, timeVars>>

vars == <<supervisorVars, muxVars, busVars, coreVars>>

buildVars == <<state, exitCode, bcmd, procSet, stdpipes>>
startVars == <<pcStart, retStart, okStarts>>
stopVars == <<pcStop, stopErr>>
childVars == <<child, childCode, signalled>>
pipeVars == <<srcOpen, closedFlag, pcRL, doneChan>>
clockVars == <<sinceSel, sinceLoop>>

(* ------------------------------ helpers -------------------------------- *)
Min(a, b) == IF a < b THEN a ELSE b

\* a HasStarted that tests the started bit alone
HasStarted_StartedBitOnly(s) == (s \div buildStateStarted) % 2 = 1

\* state & ^uint32(0) != 0
HasStarted(s) == s # buildStateNull

\* a HasStopped with the mask of HasStarted
HasStopped_AnyBit(s) == s # buildStateNull

\* state & buildStateFinished != 0
HasStopped(s) == (s \div buildStateFinished) % 2 = 1

\* build.ExitCode
ExitCode == IF HasStopped(state) THEN [code |-> exitCode, err |-> ErrNil]
            ELSE [code |-> 0, err |-> ErrProcessNotFinished]

\* the zero time.Time, and the readings of time.Now() in runBuildSync and
\* in buildFinished, in the order the run goroutine takes them
ZeroTime == 0
ProvisionedAt == 1
FinishedAt == 2

\* build.BuildTime: zero unless the build has stopped, else end - start
BuildTime ==
  IF ~HasStopped(state) THEN 0 ELSE buildEndTime - buildStartTime

\* the sends of a lifecycle topic so far
Count(topic) == Cardinality({i \in 1..Len(emitted) : emitted[i] = topic})
Emitted(topic) == \E i \in 1..Len(emitted) : emitted[i] = topic

\* app.SendEvent of a lifecycle topic: Emit appends to the bus channel
SendEvent(topic) == Append(emitted, topic)

\* app.Loginfof / Logwarnf / Logcritf: n more /log/ topics on the bus
Logf(n) == Min(nlog + n, MaxLog)

\* the deadline of the run-loop's config snapshot
NormalDeadline(d) == IF d < 1 THEN DefaultDeadline ELSE d

\* hasPIDExited: the /proc entry is gone or marked zombie
hasPIDExited == child \in {"zombie", "reaped"}

\* an integration: IsProvider(config.HeadRepo), IsProvider(config.BaseRepo),
\* and whether its ProvideFor returns nil
Integration == [head : BOOLEAN, base : BOOLEAN, ok : BOOLEAN]
IntegrationLists == UNION {[1..n -> Integration] : n \in 0..MaxIntegrations}

\* the test of the loop of provisionBuildIntoDirectory
IsProviderForBoth(int) == int.head /\ int.base

\* build.provisionBuildIntoDirectory: TRUE iff it returns nil
RECURSIVE provisionFrom(_, _)
provisionFrom(ints, i) ==
  IF i > Len(ints) THEN FALSE
  ELSE IF IsProviderForBoth(ints[i]) /\ ints[i].ok THEN TRUE
  ELSE provisionFrom(ints, i + 1)

\* the indices of the integrations whose ProvideFor the loop calls, in call
\* order: continue after an error, break after a success
RECURSIVE ProvideForCalls(_, _)
ProvideForCalls(ints, i) ==
  IF i > Len(ints) THEN <<>>
  ELSE IF ~IsProviderForBoth(ints[i]) THEN ProvideForCalls(ints, i + 1)
  ELSE IF ints[i].ok THEN <<i>>
  ELSE <<i>> \o ProvideForCalls(ints, i + 1)

provisionBuildIntoDirectory(ints) == provisionFrom(ints, 1)

\* the goroutines that call NewBuild
Callers == 1..NumCallers
\* the identifiers of the integrations handed to SetIntegrations, in order
Registered == <<"github", "slack", "web">>
\* the enabledIntegrations lists of the app configs: any of the registered
\* identifiers and one that is not registered; the empty list enables all
EnabledLists == SUBSET {"github", "slack", "web", "other"}
\* the goroutines of TestGenerateTokenUniqueness, one call each
Generators == 1..NumGenerators
\* the goroutines that call StoreCache, and the keys and data they store
Storers == 1..NumStorers
CacheKeys == {"k1", "k2"}
CacheData == {"a", "b"}
\* the goroutines that call Ref and Unref
Holders == 1..NumHolders
\* the directory provisionDirectory makes for the build
Workspace == "ngbuild-workspace-1"
\* the values generateToken returns
Tokens == {"t1", "t2", "t3"}
ErrNotFound == "Couldn't find build"

\* a BuildConfig of group g with every required field set but BuildRunner,
\* which app.NewBuild sets
BuildConfig(g) ==
  [Title |-> "title", URL |-> "url", HeadRepo |-> "head", HeadHash |-> "hh",
   BaseRepo |-> "base", BaseHash |-> "bh", Group |-> g, BuildRunner |-> "",
   Deadline |-> 0]

\* the configs handed to app.NewBuild: complete ones of two groups and one
\* without a title
Configs ==
  {BuildConfig("g1"), BuildConfig("g2"), [BuildConfig("g1") EXCEPT !.Title = ""]}

\* checkConfig: the error for the first required field that is empty
checkConfig(config) ==
  IF config.Title = "" THEN "Title is required"
  ELSE IF config.URL = "" THEN "URL is required"
  ELSE IF config.HeadRepo = "" THEN "URL is required"
  ELSE IF config.HeadHash = "" THEN "URL is required"
  ELSE IF config.BaseRepo = "" THEN "MergeRepo is required"
  ELSE IF config.BaseHash = "" THEN "MergeHash is required"
  ELSE IF config.Group = "" THEN "Group is required"
  ELSE IF config.BuildRunner = "" THEN "BuildRunner is required"
  ELSE ErrNil

\* a caller that is in no NewBuild call: its locals are zero values
IdleCall ==
  [pc |-> "idle", group |-> "", config |-> BuildConfig(""), token |-> "",
   err |-> ErrNil, retryOf |-> <<>>, index |-> 0]

(* ------------------------------- Init ---------------------------------- *)
Init ==
  /\ state = buildStateNull
  /\ exitCode = 0
  /\ bcmd = "nil"
  /\ procSet = FALSE
  /\ stdpipes = FALSE
  /\ mu = FALSE
  /\ cfgDeadline \in Deadlines
  /\ deadline = 0
  /\ emitted = <<>>
  /\ nlog = 0
  /\ pcStart = [s \in Starters |-> "idle"]
  /\ retStart = [s \in Starters |-> ErrNil]
  /\ okStarts = 0
  /\ pcStop = [t \in Stoppers |-> "idle"]
  /\ stopErr = ErrNil
  /\ pcRun = "none"
  /\ runErr = ErrNil
  /\ child = "none"
  /\ childCode = 0
  /\ signalled = FALSE
  /\ srcOpen = [p \in Pipes |-> TRUE]
  /\ closedFlag = [p \in Pipes |-> FALSE]
  /\ pcRL = [p \in Pipes |-> "none"]
  /\ doneChan = 0
  /\ sinceSel = 0
  /\ sinceLoop = 0
  /\ dlStopInvoked = FALSE
  /\ everFinished = FALSE
  /\ readCache = <<>>
  /\ cacheSize = 0
  /\ readClosed = FALSE
  /\ pcLoop = "read"
  /\ loopBuf = <<>>
  /\ loopErr = "nil"
  /\ pm = 0
  /\ waitL = 0
  /\ notify = {}
  /\ born = [r \in Readers |-> "no"]
  /\ position = [r \in Readers |-> 0]
  /\ received = [r \in Readers |-> <<>>]
  /\ pcReader = [r \in Readers |-> "idle"]
  /\ lastRead = [r \in Readers |-> "none"]
  /\ sawEOF = [r \in Readers |-> FALSE]
  /\ listeners = <<>>
  /\ events = <<>>
  /\ busDone = 0
  /\ busClosed = FALSE
  /\ handlerctr = 0
  /\ pcBus = "select"
  /\ fireTopic = ""
  /\ pending = <<>>
  /\ ndeq = 0
  /\ sent = <<>>
  /\ calls = <<>>
  /\ removed = {}
  /\ addErr = "nil"
  /\ inflight = {}
  /\ adding = {}
  /\ dropped = {}
  /\ builds = <<>>
  /\ am = 0
  /\ call = [c \in Callers |-> IdleCall]
  /\ queued = 0
  /\ pcHistory = ""
  /\ pcDispatch = "select"
  /\ ref = 0
  /\ buildDirectory = ""
  /\ onDisk = {}
  /\ pcUnref = [h \in Holders |-> "idle"]
  /\ zeroed = [h \in Holders |-> FALSE]
  /\ refCalls = 0
  /\ globalIntegrationsCache = Registered
  /\ apps = <<>>
  /\ cache = <<>>
  /\ cacheFile = <<>>
  /\ cacheSyncCheck = 0
  /\ cacheSyncLock = 0
  /\ cacheReaders = {}
  /\ pcStore = [t \in Storers |-> "idle"]
  /\ storeArgs = [t \in Storers |-> [key |-> "", data |-> ""]]
  /\ storeCalls = 0
  /\ heard = 0
  /\ buildStartTime = ZeroTime
  /\ buildEndTime = ZeroTime
  /\ ctr = 0
  /\ pcGen = [g \in Generators |-> "idle"]
  /\ genTime = [g \in Generators |-> 0]
  /\ genCtr = [g \in Generators |-> 0]
  /\ ids = [g \in Generators |-> ""]

(* ----------------------------- build.Start ----------------------------- *)
\* b.m.Lock()
StartLock(s) ==
  /\ pcStart[s] = "idle"
  /\ ~mu
  /\ mu' = TRUE
  /\ pcStart' = [pcStart EXCEPT ![s] = "locked"]
  /\ UNCHANGED <<buildVars, cfgDeadline, deadline, emitted, nlog, retStart, okStarts,
                 stopVars, pcRun, runErr, childVars, pipeVars, clockVars,
                 dlStopInvoked, everFinished>>
  /\ UNCHANGED outsideBuild

\* the state check; on success the state change, the provisioning topic, the
\* config snapshot with its deadline default, and the go statement
StartBody(s) ==
  /\ pcStart[s] = "locked"
  /\ pcStart' = [pcStart EXCEPT ![s] = "unlock"]
  /\ IF HasStarted(state) \/ HasStopped(state)
     THEN /\ retStart' = [retStart EXCEPT ![s] = ErrProcessAlreadyStarted]
          /\ UNCHANGED <<state, emitted, deadline, nlog, pcRun, okStarts>>
     ELSE /\ retStart' = [retStart EXCEPT ![s] = ErrNil]
          /\ state' = buildStateWaitingForProvisioning
          /\ emitted' = SendEvent("provisioning")
          /\ deadline' = NormalDeadline(cfgDeadline)
          /\ nlog' = IF cfgDeadline < 1 THEN Logf(1) ELSE nlog
          /\ pcRun' = "provDir"
          /\ okStarts' = Min(okStarts + 1, 2)
  /\ UNCHANGED <<exitCode, bcmd, procSet, stdpipes, mu, cfgDeadline, stopVars,
                 runErr, childVars, pipeVars, clockVars, dlStopInvoked,
                 everFinished>>
  /\ UNCHANGED outsideBuild

\* the deferred b.m.Unlock() and the return
StartUnlock(s) ==
  /\ pcStart[s] = "unlock"
  /\ mu' = FALSE
  /\ pcStart' = [pcStart EXCEPT ![s] = "idle"]
  /\ retStart' = [retStart EXCEPT ![s] = ErrNil]
  /\ UNCHANGED <<buildVars, cfgDeadline, deadline, emitted, nlog, okStarts,
                 stopVars, pcRun, runErr, childVars, pipeVars, clockVars,
                 dlStopInvoked, everFinished>>
  /\ UNCHANGED outsideBuild

Start(s) == StartLock(s) \/ StartBody(s) \/ StartUnlock(s)

(* ----------------------------- build.Stop ------------------------------ *)
\* The client may call Stop() whenever it is idle, and drops the result; the
\* supervisor is put at "check" by the deadline case of the loop, and its
\* result waits at "done" for the loop.
Returned(t) == IF t = Supervisor THEN "done" ELSE "idle"

\* what a returning Stop() leaves in the err of the supervision loop
Return(t, err) == IF t = Supervisor THEN err ELSE stopErr

\* the read-locked check of Stop(): the error it returns, or nil to go on
StopCheckResult(s) ==
  IF ~HasStarted(s) \/ HasStopped(s) THEN ErrProcessAlreadyFinished ELSE ErrNil

\* The read-locked check of the state.
StopCheck(t) ==
  /\ \/ t # Supervisor /\ pcStop[t] = "idle"
     \/ pcStop[t] = "check"
  /\ ~mu
  /\ IF StopCheckResult(state) # ErrNil
     THEN /\ nlog' = Logf(1)
          /\ stopErr' = Return(t, StopCheckResult(state))
          /\ pcStop' = [pcStop EXCEPT ![t] = Returned(t)]
     ELSE /\ pcStop' = [pcStop EXCEPT ![t] = "lock"]
          /\ UNCHANGED <<nlog, stopErr>>
  /\ UNCHANGED <<buildVars, mu, cfgDeadline, deadline, emitted, startVars,
                 pcRun, runErr, childVars, pipeVars, clockVars, dlStopInvoked,
                 everFinished>>
  /\ UNCHANGED outsideBuild

\* b.m.Lock() and the test of b.cmd and b.cmd.Process
StopLock(t) ==
  /\ pcStop[t] = "lock"
  /\ ~mu
  /\ mu' = TRUE
  /\ pcStop' = [pcStop EXCEPT ![t] =
                  IF bcmd = "nil" \/ ~procSet THEN "lost" ELSE "kill"]
  /\ UNCHANGED <<buildVars, cfgDeadline, deadline, emitted, nlog, startVars,
                 stopErr, pcRun, runErr, childVars, pipeVars,
                 clockVars, dlStopInvoked, everFinished>>
  /\ UNCHANGED outsideBuild

\* the lost-handle branch: b.state.SetBuildState(buildStateFinished)
StopLostState(t) ==
  /\ pcStop[t] = "lost"
  /\ nlog' = Logf(1)
  /\ state' = buildStateFinished
  /\ everFinished' = TRUE
  /\ pcStop' = [pcStop EXCEPT ![t] = "lostCode"]
  /\ UNCHANGED <<exitCode, bcmd, procSet, stdpipes, mu, cfgDeadline, deadline,
                 emitted, startVars, stopErr, pcRun, runErr,
                 childVars, pipeVars, clockVars, dlStopInvoked>>
  /\ UNCHANGED outsideBuild

\* b.exitCode = 505
StopLostCode(t) ==
  /\ pcStop[t] = "lostCode"
  /\ exitCode' = CodeLostHandle
  /\ pcStop' = [pcStop EXCEPT ![t] = "lostEmit"]
  /\ UNCHANGED <<state, bcmd, procSet, stdpipes, mu, cfgDeadline, deadline,
                 emitted, nlog, startVars, stopErr, pcRun, runErr,
                 childVars, pipeVars, clockVars, dlStopInvoked, everFinished>>
  /\ UNCHANGED outsideBuild

\* the complete topic, then the test of b.stdpipes
StopLostEmit(t) ==
  /\ pcStop[t] = "lostEmit"
  /\ emitted' = SendEvent("complete")
  /\ pcStop' = [pcStop EXCEPT ![t] = IF stdpipes THEN "lostDone" ELSE "unlock"]
  /\ UNCHANGED <<buildVars, mu, cfgDeadline, deadline, nlog, startVars,
                 stopErr, pcRun, runErr, childVars, pipeVars,
                 clockVars, dlStopInvoked, everFinished>>
  /\ UNCHANGED outsideBuild

\* b.stdpipes.Done <- struct{}{}: blocks while the buffer is full
StopLostDone(t) ==
  /\ pcStop[t] = "lostDone"
  /\ doneChan < DoneCap
  /\ doneChan' = doneChan + 1
  /\ pcStop' = [pcStop EXCEPT ![t] = "unlock"]
  /\ UNCHANGED <<buildVars, mu, cfgDeadline, deadline, emitted, nlog,
                 startVars, stopErr, pcRun, runErr, childVars,
                 srcOpen, closedFlag, pcRL, clockVars, dlStopInvoked,
                 everFinished>>
  /\ UNCHANGED outsideBuild

\* syscall.Getpgid and syscall.Kill(-pgid, 15); an OS error is returned
\* through the deferred unlock
StopKill(t) ==
  /\ pcStop[t] = "kill"
  /\ \E ok \in BOOLEAN :
       IF ok
       THEN /\ signalled' = TRUE
            /\ pcStop' = [pcStop EXCEPT ![t] = "unlock"]
            /\ UNCHANGED <<mu, stopErr>>
       ELSE /\ stopErr' = Return(t, ErrOS)
            /\ mu' = FALSE
            /\ pcStop' = [pcStop EXCEPT ![t] = Returned(t)]
            /\ UNCHANGED signalled
  /\ UNCHANGED <<buildVars, cfgDeadline, deadline, emitted, nlog, startVars,
                 pcRun, runErr, child, childCode, pipeVars,
                 clockVars, dlStopInvoked, everFinished>>
  /\ UNCHANGED outsideBuild

\* loginfof("Stopped build"), the deferred unlock, return nil
StopUnlock(t) ==
  /\ pcStop[t] = "unlock"
  /\ nlog' = Logf(1)
  /\ mu' = FALSE
  /\ stopErr' = Return(t, ErrNil)
  /\ pcStop' = [pcStop EXCEPT ![t] = Returned(t)]
  /\ UNCHANGED <<buildVars, cfgDeadline, deadline, emitted, startVars,
                 pcRun, runErr, childVars, pipeVars, clockVars,
                 dlStopInvoked, everFinished>>
  /\ UNCHANGED outsideBuild

Stop(t) ==
  \/ StopCheck(t) \/ StopLock(t) \/ StopLostState(t) \/ StopLostCode(t)
  \/ StopLostEmit(t) \/ StopLostDone(t) \/ StopKill(t) \/ StopUnlock(t)

(* ------------------ the run goroutine: build.runBuildSync -------------- *)
\* loginfof("provisioning") and provisionDirectory
RunProvisionDirectory ==
  /\ pcRun = "provDir"
  /\ nlog' = Logf(1)
  /\ \E ok \in BOOLEAN :
       IF ok THEN pcRun' = "setCmd" /\ UNCHANGED runErr
       ELSE pcRun' = "ret" /\ runErr' = "workspace"
  /\ UNCHANGED <<buildVars, mu, cfgDeadline, deadline, emitted, startVars,
                 stopVars, childVars, pipeVars, clockVars, dlStopInvoked,
                 everFinished>>
  /\ UNCHANGED outsideBuild

\* under b.m: start time, build directory, b.cmd = cmd
RunSetCmd ==
  /\ pcRun = "setCmd"
  /\ ~mu
  /\ bcmd' = "set"
  /\ buildStartTime' = ProvisionedAt
  /\ pcRun' = "provision"
  /\ UNCHANGED <<state, exitCode, procSet, stdpipes, mu, cfgDeadline, deadline,
                 emitted, nlog, startVars, stopVars, runErr, childVars,
                 pipeVars, clockVars, dlStopInvoked, everFinished>>
  /\ UNCHANGED <<buildEndTime, outsideBuildButTime>>

\* provisionBuildIntoDirectory over the integrations of the config
RunProvision ==
  /\ pcRun = "provision"
  /\ \E ints \in IntegrationLists :
       IF provisionBuildIntoDirectory(ints)
       THEN pcRun' = "pipes" /\ UNCHANGED <<runErr, nlog>>
       ELSE pcRun' = "fin501" /\ runErr' = "provision" /\ nlog' = Logf(Len(ints))
  /\ UNCHANGED <<buildVars, mu, cfgDeadline, deadline, emitted, startVars,
                 stopVars, childVars, pipeVars, clockVars, dlStopInvoked,
                 everFinished>>
  /\ UNCHANGED outsideBuild

\* the code the run-loop passes to buildFinished at each of its call sites
FinishCode(pc) ==
  CASE pc = "fin501" -> CodeProvision
    [] pc = "fin500" -> CodeStopFailed
    [] pc = "fin1" -> CodeChildFailed
    [] pc = "fin0" -> CodeSuccess

\* build.buildFinished(code): under b.m, end time, exit code, b.cmd = nil
buildFinished(code) ==
  /\ ~mu
  /\ buildEndTime' = FinishedAt
  /\ exitCode' = code
  /\ bcmd' = "nil"

RunBuildFinished ==
  /\ pcRun \in {"fin501", "fin500", "fin1", "fin0"}
  /\ buildFinished(FinishCode(pcRun))
  /\ nlog' = IF pcRun = "fin0" THEN Logf(1) ELSE nlog
  /\ pcRun' = "ret"
  /\ UNCHANGED <<state, procSet, stdpipes, mu, cfgDeadline, deadline, emitted,
                 startVars, stopVars, runErr, childVars, pipeVars, clockVars,
                 dlStopInvoked, everFinished>>
  /\ UNCHANGED <<buildStartTime, outsideBuildButTime>>

\* cmd.StdoutPipe, cmd.StderrPipe, newStdpipes (which starts both read loops)
RunPipes ==
  /\ pcRun = "pipes"
  /\ nlog' = Logf(1)
  /\ \E ok \in BOOLEAN :
       IF ok
       THEN /\ stdpipes' = TRUE
            /\ pcRL' = [p \in Pipes |-> "reading"]
            /\ pcRun' = "cmdStart"
            /\ UNCHANGED runErr
       ELSE /\ runErr' = "pipe"
            /\ pcRun' = "ret"
            /\ UNCHANGED <<stdpipes, pcRL>>
  /\ UNCHANGED <<state, exitCode, bcmd, procSet, mu, cfgDeadline, deadline,
                 emitted, startVars, stopVars, childVars, srcOpen, closedFlag,
                 doneChan, clockVars, dlStopInvoked, everFinished>>
  /\ UNCHANGED outsideBuild

\* cmd.Start(): on failure exec closes the pipes it made
RunCmdStart ==
  /\ pcRun = "cmdStart"
  /\ \E ok \in BOOLEAN :
       IF ok
       THEN /\ procSet' = TRUE
            /\ child' = "running"
            /\ UNCHANGED <<runErr, srcOpen>>
       ELSE /\ runErr' = "launch"
            /\ srcOpen' = [p \in Pipes |-> FALSE]
            /\ UNCHANGED <<procSet, child>>
  /\ pcRun' = "emitStarted"
  /\ UNCHANGED <<state, exitCode, bcmd, stdpipes, mu, cfgDeadline, deadline,
                 emitted, nlog, startVars, stopVars, childCode, signalled,
                 closedFlag, pcRL, doneChan, clockVars, dlStopInvoked,
                 everFinished>>
  /\ UNCHANGED outsideBuild

\* the started topic is sent before the error of cmd.Start() is looked at
RunEmitStarted ==
  /\ pcRun = "emitStarted"
  /\ emitted' = SendEvent("started")
  /\ pcRun' = IF runErr = "launch" THEN "kill" ELSE "setStarted"
  /\ UNCHANGED <<buildVars, mu, cfgDeadline, deadline, nlog, startVars,
                 stopVars, runErr, childVars, pipeVars, clockVars,
                 dlStopInvoked, everFinished>>
  /\ UNCHANGED outsideBuild

\* cmd.Process.Kill() after a failed launch, where cmd.Process is nil: the
\* call returns an error that is dropped, or it panics; the panic runs the
\* deferred state change and ends the program
RunKill ==
  /\ pcRun = "kill"
  /\ \/ pcRun' = "ret" /\ UNCHANGED <<state, everFinished>>
     \/ /\ pcRun' = "panicked"
        /\ state' = buildStateFinished
        /\ everFinished' = TRUE
  /\ UNCHANGED <<exitCode, bcmd, procSet, stdpipes, mu, cfgDeadline, deadline,
                 emitted, nlog, startVars, stopVars, runErr, childVars,
                 pipeVars, clockVars, dlStopInvoked>>
  /\ UNCHANGED outsideBuild

\* loginfof("Command started"), b.state = buildStateStarted, loop entry
RunSetStarted ==
  /\ pcRun = "setStarted"
  /\ nlog' = Logf(1)
  /\ state' = buildStateStarted
  /\ pcRun' = "select"
  /\ sinceSel' = 0
  /\ sinceLoop' = 0
  /\ UNCHANGED <<exitCode, bcmd, procSet, stdpipes, mu, cfgDeadline, deadline,
                 emitted, startVars, stopVars, runErr, childVars, pipeVars,
                 dlStopInvoked, everFinished>>
  /\ UNCHANGED outsideBuild

\* case <-b.stdpipes.Done
RunSelectDone ==
  /\ pcRun = "select"
  /\ doneChan > 0
  /\ doneChan' = doneChan - 1
  /\ nlog' = Logf(1)
  /\ pcRun' = "wait"
  /\ UNCHANGED <<buildVars, mu, cfgDeadline, deadline, emitted, startVars,
                 stopVars, runErr, childVars, srcOpen, closedFlag, pcRL,
                 clockVars, dlStopInvoked, everFinished>>
  /\ UNCHANGED outsideBuild

\* case <-time.After(config.Deadline): the supervisor calls b.Stop()
RunSelectDeadline ==
  /\ pcRun = "select"
  /\ sinceSel >= deadline
  /\ nlog' = Logf(1)
  /\ dlStopInvoked' = TRUE
  /\ pcStop' = [pcStop EXCEPT ![Supervisor] = "check"]
  /\ pcRun' = "dlStop"
  /\ UNCHANGED <<buildVars, mu, cfgDeadline, deadline, emitted, startVars,
                 stopErr, runErr, childVars, pipeVars, clockVars,
                 everFinished>>
  /\ UNCHANGED outsideBuild

\* b.Stop() has returned to the deadline case
RunDeadlineStopped ==
  /\ pcRun = "dlStop"
  /\ pcStop[Supervisor] = "done"
  /\ pcStop' = [pcStop EXCEPT ![Supervisor] = "idle"]
  /\ IF stopErr # ErrNil
     THEN /\ nlog' = Logf(1)
          /\ runErr' = "stop"
          /\ pcRun' = "fin500"
          /\ UNCHANGED sinceSel
     ELSE /\ pcRun' = "select"
          /\ sinceSel' = 0
          /\ UNCHANGED <<nlog, runErr>>
  /\ stopErr' = ErrNil
  /\ UNCHANGED <<buildVars, mu, cfgDeadline, deadline, emitted, startVars,
                 childVars, pipeVars, sinceLoop,
                 dlStopInvoked, everFinished>>
  /\ UNCHANGED outsideBuild

\* case <-time.After(time.Second * 5): hasPIDExited(cmd.Process.Pid)
RunSelectTick ==
  /\ pcRun = "select"
  /\ sinceSel >= ZombieTick
  /\ IF hasPIDExited
     THEN nlog' = Logf(1) /\ pcRun' = "close" /\ UNCHANGED sinceSel
     ELSE pcRun' = "select" /\ sinceSel' = 0 /\ UNCHANGED nlog
  /\ UNCHANGED <<buildVars, mu, cfgDeadline, deadline, emitted, startVars,
                 stopVars, runErr, childVars, pipeVars, sinceLoop,
                 dlStopInvoked, everFinished>>
  /\ UNCHANGED outsideBuild

\* stdpipes.Close: p.reader.Close()
RunClose ==
  /\ pcRun = "close"
  /\ srcOpen' = [p \in Pipes |-> FALSE]
  /\ pcRun' = "closeSend"
  /\ UNCHANGED <<buildVars, mu, cfgDeadline, deadline, emitted, nlog,
                 startVars, stopVars, runErr, childVars, closedFlag, pcRL,
                 doneChan, clockVars, dlStopInvoked, everFinished>>
  /\ UNCHANGED outsideBuild

\* stdpipes.Close: p.Done <- struct{}{}, which blocks while the buffer is full
RunCloseSend ==
  /\ pcRun = "closeSend"
  /\ doneChan < DoneCap
  /\ doneChan' = doneChan + 1
  /\ pcRun' = "select"
  /\ sinceSel' = 0
  /\ UNCHANGED <<buildVars, mu, cfgDeadline, deadline, emitted, nlog,
                 startVars, stopVars, runErr, childVars, srcOpen, closedFlag,
                 pcRL, sinceLoop, dlStopInvoked, everFinished>>
  /\ UNCHANGED outsideBuild

\* cmd.Wait() returns once the child has exited
RunWait ==
  /\ pcRun = "wait"
  /\ child = "zombie"
  /\ child' = "reaped"
  /\ IF childCode # 0
     THEN nlog' = Logf(1) /\ runErr' = "wait" /\ pcRun' = "fin1"
     ELSE pcRun' = "fin0" /\ UNCHANGED <<nlog, runErr>>
  /\ UNCHANGED <<buildVars, mu, cfgDeadline, deadline, emitted, startVars,
                 stopVars, childCode, signalled, pipeVars, clockVars,
                 dlStopInvoked, everFinished>>
  /\ UNCHANGED outsideBuild

\* a return of runBuildSync without the deferred state change
RunReturn_NoDefer ==
  /\ pcRun = "ret"
  /\ pcRun' = "post"
  /\ UNCHANGED <<buildVars, mu, cfgDeadline, deadline, emitted, nlog,
                 startVars, stopVars, runErr, childVars, pipeVars, clockVars,
                 dlStopInvoked, everFinished>>
  /\ UNCHANGED outsideBuild

\* runBuildSync returns: the deferred b.state = buildStateFinished
RunReturn ==
  /\ pcRun = "ret"
  /\ state' = buildStateFinished
  /\ everFinished' = TRUE
  /\ pcRun' = "post"
  /\ UNCHANGED <<exitCode, bcmd, procSet, stdpipes, mu, cfgDeadline, deadline,
                 emitted, nlog, startVars, stopVars, runErr, childVars,
                 pipeVars, clockVars, dlStopInvoked>>
  /\ UNCHANGED outsideBuild

\* the rest of the goroutine of Start: the error log, the artifact directory
RunPost ==
  /\ pcRun = "post"
  /\ nlog' = Logf(1)
  /\ pcRun' = "emitComplete"
  /\ UNCHANGED <<buildVars, mu, cfgDeadline, deadline, emitted, startVars,
                 stopVars, runErr, childVars, pipeVars, clockVars,
                 dlStopInvoked, everFinished>>
  /\ UNCHANGED outsideBuild

\* the complete topic that ends the goroutine
RunEmitComplete ==
  /\ pcRun = "emitComplete"
  /\ emitted' = SendEvent("complete")
  /\ pcRun' = "done"
  /\ UNCHANGED <<buildVars, mu, cfgDeadline, deadline, nlog, startVars,
                 stopVars, runErr, childVars, pipeVars, clockVars,
                 dlStopInvoked, everFinished>>
  /\ UNCHANGED outsideBuild

runBuildSync ==
  \/ RunProvisionDirectory \/ RunSetCmd \/ RunProvision \/ RunBuildFinished
  \/ RunPipes \/ RunCmdStart \/ RunEmitStarted \/ RunKill \/ RunSetStarted
  \/ RunSelectDone \/ RunSelectDeadline \/ RunDeadlineStopped
  \/ RunSelectTick \/ RunClose \/ RunCloseSend \/ RunWait \/ RunReturn

RunGoroutine == runBuildSync \/ RunPost \/ RunEmitComplete

(* --------------------- the child and its output pipes ------------------ *)
\* the child process exits, with status zero or not; it stays a zombie
\* until cmd.Wait() reaps it
ChildExit ==
  /\ child = "running"
  /\ child' = "zombie"
  /\ \E c \in {0, 1} : childCode' = c
  /\ UNCHANGED <<buildVars, mu, cfgDeadline, deadline, emitted, nlog,
                 startVars, stopVars, pcRun, runErr, signalled, pipeVars,
                 clockVars, dlStopInvoked, everFinished>>
  /\ UNCHANGED outsideBuild

\* the write end of a pipe is closed (by the child, or when its last holder
\* exits): the source of the pipe reports EOF from now on
PipeEOF(p) ==
  /\ child # "none"
  /\ srcOpen[p]
  /\ srcOpen' = [srcOpen EXCEPT ![p] = FALSE]
  /\ UNCHANGED <<buildVars, mu, cfgDeadline, deadline, emitted, nlog,
                 startVars, stopVars, pcRun, runErr, childVars, closedFlag,
                 pcRL, doneChan, clockVars, dlStopInvoked, everFinished>>
  /\ UNCHANGED outsideBuild

(* --------------------------- stdpipes.readLoop ------------------------- *)
\* Read returns an error or EOF: the closed flag of the pipe is set
ReadLoopClosed(p) ==
  /\ pcRL[p] = "reading"
  /\ ~srcOpen[p]
  /\ closedFlag' = [closedFlag EXCEPT ![p] = TRUE]
  /\ pcRL' = [pcRL EXCEPT ![p] = "check"]
  /\ UNCHANGED <<buildVars, mu, cfgDeadline, deadline, emitted, nlog,
                 startVars, stopVars, pcRun, runErr, childVars, srcOpen,
                 doneChan, clockVars, dlStopInvoked, everFinished>>
  /\ UNCHANGED outsideBuild

\* after the loop: if p.getclosed(typeStdout) && p.getclosed(typeStderr)
ReadLoopCheck(p) ==
  /\ pcRL[p] = "check"
  /\ pcRL' = [pcRL EXCEPT ![p] =
                IF \A q \in Pipes : closedFlag[q] THEN "send" ELSE "exit"]
  /\ UNCHANGED <<buildVars, mu, cfgDeadline, deadline, emitted, nlog,
                 startVars, stopVars, pcRun, runErr, childVars, srcOpen,
                 closedFlag, doneChan, clockVars, dlStopInvoked, everFinished>>
  /\ UNCHANGED outsideBuild

\* p.Done <- struct{}{}
ReadLoopDone(p) ==
  /\ pcRL[p] = "send"
  /\ doneChan < DoneCap
  /\ doneChan' = doneChan + 1
  /\ pcRL' = [pcRL EXCEPT ![p] = "exit"]
  /\ UNCHANGED <<buildVars, mu, cfgDeadline, deadline, emitted, nlog,
                 startVars, stopVars, pcRun, runErr, childVars, srcOpen,
                 closedFlag, clockVars, dlStopInvoked, everFinished>>
  /\ UNCHANGED outsideBuild

readLoop(p) == ReadLoopClosed(p) \/ ReadLoopCheck(p) \/ ReadLoopDone(p)

(* -------------------------------- time --------------------------------- *)
\* the time until the earlier timer of the select expires
NextTimer == Min(deadline, ZombieTick)

\* time passes while the select of the supervision loop has no ready case,
\* up to the moment its earlier timer expires
Advance ==
  /\ pcRun = "select"
  /\ doneChan = 0
  /\ sinceSel < NextTimer
  /\ sinceSel' = NextTimer
  /\ sinceLoop' = Min(sinceLoop + (NextTimer - sinceSel), MaxTime)
  /\ UNCHANGED <<buildVars, mu, cfgDeadline, deadline, emitted, nlog,
                 startVars, stopVars, pcRun, runErr, childVars, pipeVars,
                 dlStopInvoked, everFinished>>
  /\ UNCHANGED outsideBuild

(* ------------------------------ the system ----------------------------- *)
\* a panic of the run goroutine ends the program
Alive == pcRun # "panicked"

Next ==
  \/ Alive /\ \E s \in Starters : Start(s)
  \/ Alive /\ \E t \in Stoppers : Stop(t)
  \/ Alive /\ RunGoroutine
  \/ Alive /\ ChildExit
  \/ Alive /\ \E p \in Pipes : PipeEOF(p)
  \/ Alive /\ \E p \in Pipes : readLoop(p)
  \/ Alive /\ Advance

Spec == Init /\ [][Next]_vars

(* ------------- the listener of the complete topic ---------------------- *)
\* coreloop dispatches the next complete topic of the build to a listener
\* (Slack.onBuildComplete): it looks the build up and calls ExitCode()
onBuildComplete ==
  /\ heard < Count("complete")
  /\ heard' = heard + 1
  /\ UNCHANGED <<supervisorVars, muxVars, busVars, appVars, refVars,
                 composeVars, cacheVars, tokenVars, timeVars>>

ListenNext ==
  \/ Next
  \/ Alive /\ onBuildComplete

\* the build with the default deadline
ListenInit == Init /\ cfgDeadline = 0

ListenSpec == ListenInit /\ [][ListenNext]_vars

(* ------------------------------ fairness ------------------------------- *)
\* the steps of a Stop() call that is under way
StopSteps(t) == pcStop[t] # "idle" /\ Stop(t)

\* Every goroutine that can run does run: the run goroutine, a Stop() or
\* Start() call under way, the read loops, the timers.  A lock is granted to
\* a goroutine that keeps asking for it.  The child exits in the end, also
\* when it is left alone; once signalled, the process group lets go of the
\* pipes.  Calls by clients are free, and so is a pipe that outlives the
\* child in a descendant that was not signalled.
Fairness ==
  /\ SF_vars(RunGoroutine)
  /\ \A t \in Stoppers : SF_vars(StopSteps(t))
  /\ \A s \in Starters : WF_vars(StartBody(s) \/ StartUnlock(s))
  /\ \A p \in Pipes : WF_vars(readLoop(p))
  /\ WF_vars(Advance)
  /\ WF_vars(ChildExit)
  /\ \A p \in Pipes : WF_vars(signalled /\ PipeEOF(p))

FairSpec == Spec /\ Fairness

(* ------------- the pipe multiplexer, one-stream form ------------------- *)
\* The stdpipes of src/unnamed/part_005: one source, one readLoop, and the
\* readers NewReader hands out.  stdpipes.m is held only for the length of
\* a copy, so each of its critical sections is one step; readWait.L is held
\* across steps.

\* the sequence the source has produced: written or still in readLoop's buf
Produced == readCache \o loopBuf

\* readLoop: p.getpipe().Read(buf[:]) returns n bytes and an error; on an
\* error the closed flag is stored at once, before the bytes are written.
\* The source blocks rather than return (0, nil).
LoopRead ==
  /\ pcLoop = "read"
  /\ \E n \in 0..MaxChunk, err \in {"nil", "EOF", "error"} :
       /\ Len(readCache) + n <= MaxBytes
       /\ n = 0 => err # "nil"
       /\ loopBuf' = SubSeq(Stream, Len(readCache) + 1, Len(readCache) + n)
       /\ loopErr' = err
       /\ readClosed' = (readClosed \/ err # "nil")
  /\ pcLoop' = "write"
  /\ UNCHANGED <<outsideMux, readCache, cacheSize, pm, waitL, notify, readerVars, pcReader>>

\* readLoop: p.m.Lock(); writeall(p.getcache(), buf[:n]); cacheSize += n;
\* p.m.Unlock()
LoopWrite ==
  /\ pcLoop = "write"
  /\ pm = 0
  /\ readCache' = readCache \o loopBuf
  /\ cacheSize' = cacheSize + Len(loopBuf)
  /\ loopBuf' = <<>>
  /\ pcLoop' = "broadcast"
  /\ UNCHANGED <<outsideMux, readClosed, loopErr, pm, waitL, notify, readerVars, pcReader>>

\* sync.Cond.Broadcast: every goroutine in the notify list is made runnable
Broadcast ==
  /\ notify' = {}
  /\ pcReader' = [r \in Readers |-> IF r \in notify THEN "woken" ELSE pcReader[r]]

\* readLoop: waiter.Broadcast(), then the loop test on shouldExit
LoopBroadcast ==
  /\ pcLoop = "broadcast"
  /\ Broadcast
  /\ pcLoop' = IF loopErr # "nil" THEN "check" ELSE "read"
  /\ UNCHANGED <<outsideMux, readCache, cacheSize, readClosed, loopBuf, loopErr, pm, waitL,
                 readerVars>>

\* readLoop after the loop: if p.getclosed() { p.Done <- struct{}{} }
LoopDone ==
  /\ pcLoop = "check"
  /\ IF readClosed
     THEN doneChan < DoneCap /\ doneChan' = doneChan + 1
     ELSE UNCHANGED doneChan
  /\ pcLoop' = "exited"
  /\ UNCHANGED <<outsideMuxButDone, readCache, cacheSize, readClosed, loopBuf, loopErr, pm, waitL,
                 notify, readerVars, pcReader>>

readLoop1 == LoopRead \/ LoopWrite \/ LoopBroadcast \/ LoopDone

\* a NewReader that starts the reader at the end of the cache
NewReader_AtEnd(r) ==
  /\ born[r] = "no"
  /\ born' = [born EXCEPT ![r] = IF readClosed THEN "closed"
                                 ELSE IF Len(readCache) > 0 THEN "mid"
                                 ELSE "early"]
  /\ position' = [position EXCEPT ![r] = Len(readCache)]
  /\ UNCHANGED <<outsideMux, loopVars, pm, waitL, notify, received,
                 pcReader, lastRead, sawEOF>>

\* stdpipes.NewReader: a stdreader with position 0
NewReader(r) ==
  /\ born[r] = "no"
  /\ born' = [born EXCEPT ![r] = IF readClosed THEN "closed"
                                 ELSE IF Len(readCache) > 0 THEN "mid"
                                 ELSE "early"]
  /\ position' = [position EXCEPT ![r] = 0]
  /\ UNCHANGED <<outsideMux, loopVars, pm, waitL, notify, received, pcReader, lastRead, sawEOF>>

\* stdreader.Read called with len(p) < 1: an error, nothing else
ReadTooSmall(r) ==
  /\ born[r] # "no"
  /\ pcReader[r] = "idle"
  /\ lastRead' = [lastRead EXCEPT ![r] = "error"]
  /\ UNCHANGED <<outsideMux, loopVars, pm, waitL, notify, born, position, received,
                 pcReader, sawEOF>>

\* stdreader.Read called with len(p) >= 1: it enters GetCache(s.position)
ReadCall(r) ==
  /\ born[r] # "no"
  /\ pcReader[r] = "idle"
  /\ pcReader' = [pcReader EXCEPT ![r] = "lockL"]
  /\ UNCHANGED <<outsideMux, loopVars, pm, waitL, notify, readerVars>>

\* GetCache: p.readWait.L.Lock(), also when Wait() re-locks after a wakeup
GetCacheLockL(r) ==
  /\ pcReader[r] \in {"lockL", "woken"}
  /\ waitL = 0
  /\ waitL' = r
  /\ pcReader' = [pcReader EXCEPT ![r] = "check"]
  /\ UNCHANGED <<outsideMux, loopVars, pm, notify, readerVars>>

\* GetCache: the test of the wait loop,
\* uint64(position) >= cacheSize && p.getclosed() == false
GetCacheTest(r) ==
  /\ pcReader[r] = "check"
  /\ pcReader' = [pcReader EXCEPT ![r] =
                    IF position[r] >= cacheSize /\ ~readClosed THEN "wait"
                    ELSE "fetch"]
  /\ UNCHANGED <<outsideMux, loopVars, pm, waitL, notify, readerVars>>

\* GetCache: p.readWait.Wait() puts the caller in the notify list, unlocks
\* readWait.L and sleeps
GetCacheWait(r) ==
  /\ pcReader[r] = "wait"
  /\ notify' = notify \cup {r}
  /\ waitL' = 0
  /\ pcReader' = [pcReader EXCEPT ![r] = "sleeping"]
  /\ UNCHANGED <<outsideMux, loopVars, pm, readerVars>>

\* a Read that copies from the start of the cache whatever the position
ReadResult_FromStart(pos, n) ==
  IF Len(readCache) <= pos
  THEN [bytes |-> <<>>, res |-> IF readClosed THEN "EOF" ELSE "zero"]
  ELSE [bytes |-> SubSeq(readCache, 1, Min(n, Len(readCache))),
        res |-> "data"]

\* the result of Read on a reader at position pos with a p of n bytes, given
\* the cache and the closed flag GetCache saw under p.m
ReadResult(pos, n) ==
  IF Len(readCache) <= pos
  THEN [bytes |-> <<>>, res |-> IF readClosed THEN "EOF" ELSE "zero"]
  ELSE [bytes |-> SubSeq(readCache, pos + 1, Min(pos + n, Len(readCache))),
        res |-> "data"]

\* GetCache: p.m.Lock(); p.readWait.L.Unlock(); the copy of cache[position:];
\* p.m.Unlock(); and back in Read: (0, EOF), or n = copy(p, cachedData) and
\* s.position += n
ReadReturn(r) ==
  /\ pcReader[r] = "fetch"
  /\ pm = 0
  /\ waitL' = 0
  /\ \E n \in 1..MaxP :
       LET out == ReadResult(position[r], n) IN
         /\ received' = [received EXCEPT ![r] = @ \o out.bytes]
         /\ position' = [position EXCEPT ![r] = @ + Len(out.bytes)]
         /\ lastRead' = [lastRead EXCEPT ![r] = out.res]
         /\ sawEOF' = [sawEOF EXCEPT ![r] = @ \/ out.res = "EOF"]
  /\ pcReader' = [pcReader EXCEPT ![r] = "idle"]
  /\ UNCHANGED <<outsideMux, loopVars, pm, notify, born>>

Read1(r) ==
  \/ ReadTooSmall(r) \/ ReadCall(r) \/ GetCacheLockL(r) \/ GetCacheTest(r)
  \/ GetCacheWait(r) \/ ReadReturn(r)

MuxInit == Init /\ cfgDeadline = 0

MuxNext ==
  \/ readLoop1
  \/ \E r \in Readers : NewReader(r)
  \/ \E r \in Readers : Read1(r)

MuxSpec == MuxInit /\ [][MuxNext]_vars

\* Every goroutine that can run does run: readLoop once the source Read has
\* returned, and each step of a Read under way.  The callers keep calling
\* Read.  When the source returns, and with what, is free.
MuxFairness ==
  /\ WF_vars(LoopWrite \/ LoopBroadcast \/ LoopDone)
  /\ \A r \in Readers :
       /\ WF_vars(ReadCall(r))
       /\ SF_vars(GetCacheLockL(r))
       /\ WF_vars(GetCacheTest(r) \/ GetCacheWait(r) \/ ReadReturn(r))

MuxFairSpec == MuxSpec /\ MuxFairness

(* ------------- the pipe multiplexer, two-stream form ------------------- *)
\* The stdpipes of src/core/stdpipes.go, of which the stdout stream is
\* modelled with its readLoop and its readers; the stderr stream runs the
\* same code on a cache and a condition of its own under the same
\* stdpipes.m, and its source stays silent.  Here GetCache holds stdpipes.m
\* while it asks for the condition's lock.

\* readLoop: n, err = p.getpipe(pipetype).Read(buf[:])
Loop2Read ==
  /\ pcLoop = "read"
  /\ \E n \in 0..MaxChunk, err \in {"nil", "EOF", "error"} :
       /\ Len(readCache) + n <= MaxBytes
       /\ n = 0 => err # "nil"
       /\ loopBuf' = SubSeq(Stream, Len(readCache) + 1, Len(readCache) + n)
       /\ loopErr' = err
  /\ pcLoop' = "write"
  /\ UNCHANGED <<outsideMux, readCache, cacheSize, readClosed, pm, waitL,
                 notify, readerVars, pcReader>>

\* readLoop: p.m.Lock(); writeall; on an error the closed flag; p.m.Unlock()
Loop2Write ==
  /\ pcLoop = "write"
  /\ pm = 0
  /\ readCache' = readCache \o loopBuf
  /\ readClosed' = (readClosed \/ loopErr # "nil")
  /\ loopBuf' = <<>>
  /\ pcLoop' = "broadcast"
  /\ UNCHANGED <<outsideMux, cacheSize, loopErr, pm, waitL, notify,
                 readerVars, pcReader>>

\* readLoop after the loop: Done is sent when both streams are closed
Loop2Done ==
  /\ pcLoop = "check"
  /\ \E stderrClosed \in BOOLEAN :
       IF readClosed /\ stderrClosed
       THEN doneChan < DoneCap /\ doneChan' = doneChan + 1
       ELSE UNCHANGED doneChan
  /\ pcLoop' = "exited"
  /\ UNCHANGED <<outsideMuxButDone, readCache, cacheSize, readClosed, loopBuf,
                 loopErr, pm, waitL, notify, readerVars, pcReader>>

readLoop2 == Loop2Read \/ Loop2Write \/ LoopBroadcast \/ Loop2Done

\* stdreader.Read called with len(p) >= 1: it enters GetCache
Read2Call(r) ==
  /\ born[r] # "no"
  /\ pcReader[r] = "idle"
  /\ pcReader' = [pcReader EXCEPT ![r] = "lockM"]
  /\ UNCHANGED <<outsideMux, loopVars, pm, waitL, notify, readerVars>>

\* Read's use of what GetCache returned, for a p of n bytes
ReadFinish(r, n) ==
  LET out == ReadResult(position[r], n) IN
    /\ received' = [received EXCEPT ![r] = @ \o out.bytes]
    /\ position' = [position EXCEPT ![r] = @ + Len(out.bytes)]
    /\ lastRead' = [lastRead EXCEPT ![r] = out.res]
    /\ sawEOF' = [sawEOF EXCEPT ![r] = @ \/ out.res = "EOF"]
    /\ pcReader' = [pcReader EXCEPT ![r] = "idle"]

\* GetCache: p.m.Lock(); with the position short of the cache's end, or at
\* its end with the stream closed, the copy and the return; else it goes on
\* to the condition holding p.m
GetCache2Enter(r) ==
  /\ pcReader[r] = "lockM"
  /\ pm = 0
  /\ IF Len(readCache) = position[r] /\ ~readClosed
     THEN /\ pm' = r
          /\ pcReader' = [pcReader EXCEPT ![r] = "lockL2"]
          /\ UNCHANGED <<position, received, lastRead, sawEOF>>
     ELSE /\ \E n \in 1..MaxP : ReadFinish(r, n)
          /\ UNCHANGED pm
  /\ UNCHANGED <<outsideMux, loopVars, waitL, notify, born>>

\* GetCache: waiter.L.Lock(), with p.m held
GetCache2LockL(r) ==
  /\ pcReader[r] = "lockL2"
  /\ waitL = 0
  /\ waitL' = r
  /\ pcReader' = [pcReader EXCEPT ![r] = "test2"]
  /\ UNCHANGED <<outsideMux, loopVars, pm, notify, readerVars>>

\* GetCache: the test of the wait loop under p.m, then p.m.Unlock()
GetCache2Test(r) ==
  /\ pcReader[r] = "test2"
  /\ pm' = 0
  /\ pcReader' = [pcReader EXCEPT ![r] =
                    IF Len(readCache) > position[r] \/ readClosed
                    THEN "relockM" ELSE "wait2"]
  /\ UNCHANGED <<outsideMux, loopVars, waitL, notify, readerVars>>

\* GetCache: waiter.Wait() puts the caller in the notify list, unlocks
\* waiter.L and sleeps
GetCache2Wait(r) ==
  /\ pcReader[r] = "wait2"
  /\ notify' = notify \cup {r}
  /\ waitL' = 0
  /\ pcReader' = [pcReader EXCEPT ![r] = "sleeping"]
  /\ UNCHANGED <<outsideMux, loopVars, pm, readerVars>>

\* waiter.Wait() returning after a Broadcast: it re-locks waiter.L
GetCache2Wake(r) ==
  /\ pcReader[r] = "woken"
  /\ waitL = 0
  /\ waitL' = r
  /\ pcReader' = [pcReader EXCEPT ![r] = "loopLockM"]
  /\ UNCHANGED <<outsideMux, loopVars, pm, notify, readerVars>>

\* GetCache: p.m.Lock() at the top of a later turn of the wait loop, with
\* waiter.L held
GetCache2LoopLockM(r) ==
  /\ pcReader[r] = "loopLockM"
  /\ pm = 0
  /\ pm' = r
  /\ pcReader' = [pcReader EXCEPT ![r] = "test2"]
  /\ UNCHANGED <<outsideMux, loopVars, waitL, notify, readerVars>>

\* GetCache after the wait loop: p.m.Lock(); waiter.L.Unlock(); the copy;
\* the deferred p.m.Unlock(); and Read's use of the result
GetCache2Return(r) ==
  /\ pcReader[r] = "relockM"
  /\ pm = 0
  /\ waitL' = 0
  /\ \E n \in 1..MaxP : ReadFinish(r, n)
  /\ UNCHANGED <<outsideMux, loopVars, pm, notify, born>>

Read2(r) ==
  \/ ReadTooSmall(r) \/ Read2Call(r) \/ GetCache2Enter(r) \/ GetCache2LockL(r)
  \/ GetCache2Test(r) \/ GetCache2Wait(r) \/ GetCache2Wake(r)
  \/ GetCache2LoopLockM(r) \/ GetCache2Return(r)

Mux2Next ==
  \/ readLoop2
  \/ \E r \in Readers : NewReader(r)
  \/ \E r \in Readers : Read2(r)

Mux2Spec == MuxInit /\ [][Mux2Next]_vars

(* ----------------------------- the event bus --------------------------- *)
\* The appbus of src/core/appbus_test.go: Emit, AddListener, RemoveHandler,
\* coreloop and fireEvent, on one bus.  A listener's callback is known by
\* its handler id.  A callback returns without calling back into the bus.

\* the pattern sources listeners are registered with, a source that does
\* not compile, and the topics emitted
PatLiteral == "test1"
PatUnnamed == "t(e)st"
PatNamed == "(?P<a>[a-z]+):(?P<b>[0-9]+)"
Patterns == {PatLiteral, PatUnnamed, PatNamed}
BadPattern == "("
Topics == {"test1", "test2", "word:12"}

\* regexp.Regexp.SubexpNames of the compiled pattern
SubexpNames(p) ==
  CASE p = PatLiteral -> <<"">>
    [] p = PatUnnamed -> <<"", "">>
    [] p = PatNamed -> <<"", "a", "b">>

\* regexp.Regexp.FindStringSubmatch: the leftmost match and its groups, or
\* the empty sequence when the pattern matches nowhere in the topic
FindStringSubmatch(p, t) ==
  CASE p = PatLiteral /\ t = "test1" -> <<"test1">>
    [] p = PatUnnamed /\ t \in {"test1", "test2"} -> <<"test", "e">>
    [] p = PatNamed /\ t = "word:12" -> <<"word:12", "word", "12">>
    [] OTHER -> <<>>

\* regexp.Regexp.MatchString
MatchString(p, t) == FindStringSubmatch(p, t) # <<>>

\* a RegexpNamedGroupsMatch for which every pattern matches every topic
RegexpNamedGroupsMatch_Always(p, t) ==
  [err |-> "nil", m |-> <<>>]

\* RegexpNamedGroupsMatch: errNoMatch, or the map that has "" under every
\* group name and then groups[index] -> submatch for every index past the
\* whole match
RegexpNamedGroupsMatch(p, t) ==
  IF ~MatchString(p, t) THEN [err |-> "no match", m |-> <<>>]
  ELSE
    LET groups == SubexpNames(p)
        sub == FindStringSubmatch(p, t)
        named == {groups[i] : i \in {j \in 1..Len(groups) : groups[j] # ""}}
        set == {groups[i] : i \in 2..Len(sub)}
        last(k) == CHOOSE i \in 2..Len(sub) :
                     groups[i] = k /\ \A j \in 2..Len(sub) : groups[j] = k => j <= i
    IN [err |-> "nil",
        m |-> [k \in named \cup set |-> IF k \in set THEN sub[last(k)] ELSE ""]]

\* the orders in which a range over a map with these keys can visit them
Orders(keys) ==
  {f \in [1..Cardinality(keys) -> keys] :
     \A i, j \in 1..Cardinality(keys) : f[i] = f[j] => i = j}

\* appbus.Emit, the test of the closed flag: on a closed bus Emit returns
EmitCheck(t) ==
  /\ Len(sent) + Cardinality(inflight) < MaxEmit
  /\ t \notin inflight
  /\ IF busClosed
     THEN dropped' = dropped \cup {t} /\ UNCHANGED inflight
     ELSE inflight' = inflight \cup {t} /\ UNCHANGED dropped
  /\ UNCHANGED <<outsideBus, adding, listeners, events, busDone, busClosed,
                 handlerctr, pcBus, fireTopic, pending, ndeq, sent, calls,
                 removed, addErr>>

\* appbus.Emit: bus.events <- action, which blocks while the channel is full
EmitSend(t) ==
  /\ t \in inflight
  /\ Len(events) < EventsCap
  /\ events' = Append(events, t)
  /\ sent' = Append(sent, t)
  /\ inflight' = inflight \ {t}
  /\ UNCHANGED <<outsideBus, adding, dropped, listeners, busDone, busClosed,
                 handlerctr, pcBus, fireTopic, pending, ndeq, calls, removed,
                 addErr>>

Emit(t) == EmitCheck(t) \/ EmitSend(t)

\* an AddListener that does not test the closed flag
AddListenerCheck_NoClosedTest(expr) ==
  /\ handlerctr + Cardinality(adding) < MaxHandlers
  /\ expr \notin adding
  /\ adding' = adding \cup {expr}
  /\ UNCHANGED <<outsideBus, inflight, dropped, listeners, events, busDone,
                 busClosed, handlerctr, pcBus, fireTopic, pending, ndeq, sent,
                 calls, removed, addErr>>

\* appbus.AddListener, the test of the closed flag: refused on a closed bus
AddListenerCheck(expr) ==
  /\ handlerctr + Cardinality(adding) < MaxHandlers
  /\ expr \notin adding
  /\ IF busClosed
     THEN addErr' = "bus is closed" /\ UNCHANGED adding
     ELSE adding' = adding \cup {expr} /\ UNCHANGED addErr
  /\ UNCHANGED <<outsideBus, inflight, dropped, listeners, events, busDone,
                 busClosed, handlerctr, pcBus, fireTopic, pending, ndeq, sent,
                 calls, removed>>

\* fireEvent holds bus.m.RLock() from its first line to its return
ReadLocked == pcBus \in {"fire", "relock"}

\* appbus.AddListener under bus.m: the key with this source if there is
\* one, else the newly compiled pattern; the next handler id is appended to
\* the key's list
AddListenerLocked(expr) ==
  /\ expr \in adding
  /\ ~ReadLocked
  /\ adding' = adding \ {expr}
  /\ IF expr \in DOMAIN listeners
     THEN /\ handlerctr' = handlerctr + 1
          /\ listeners' = [listeners EXCEPT ![expr] = Append(@, handlerctr + 1)]
          /\ addErr' = "nil"
     ELSE IF expr = BadPattern
     THEN addErr' = "compile" /\ UNCHANGED <<listeners, handlerctr>>
     ELSE /\ handlerctr' = handlerctr + 1
          /\ listeners' = [k \in DOMAIN listeners \cup {expr} |->
                             IF k = expr THEN <<handlerctr + 1>> ELSE listeners[k]]
          /\ addErr' = "nil"
  /\ UNCHANGED <<outsideBus, inflight, dropped, events, busDone, busClosed,
                 pcBus, fireTopic, pending, ndeq, sent, calls, removed>>

AddListener(expr) == AddListenerCheck(expr) \/ AddListenerLocked(expr)

\* an inner loop that drops the element after the one it was asked for
RECURSIVE removeInList_Next(_, _, _, _, _)
removeInList_Next(arr, n, i, cur, h) ==
  IF i > n THEN cur
  ELSE IF arr[i] = h /\ i < n
  THEN SubSeq(arr, 1, i) \o SubSeq(arr, i + 2, n)
  ELSE IF arr[i] = h THEN SubSeq(arr, 1, i - 1)
  ELSE removeInList_Next(arr, n, i + 1, cur, h)

\* RemoveHandler's inner loop over the slice of one key.  The range runs
\* over the n elements the slice had at its start, reading the backing array
\* arr as it is when an index is reached; append(listeners[:i],
\* listeners[i+1:]...) shifts the array in place and gives the key's new
\* list cur.
RECURSIVE removeInList(_, _, _, _, _)
removeInList(arr, n, i, cur, h) ==
  IF i > n THEN cur
  ELSE IF arr[i] = h
  THEN LET res == SubSeq(arr, 1, i - 1) \o SubSeq(arr, i + 1, n)
       IN removeInList(res \o <<arr[n]>>, n, i + 1, res, h)
  ELSE removeInList(arr, n, i + 1, cur, h)

\* RemoveHandler's outer loop over the keys in the order the range visits
\* them: the key's list is replaced; a key left without listeners is
\* deleted and the loop broken
RECURSIVE removeLoop(_, _, _, _)
removeLoop(order, i, m, h) ==
  IF i > Len(order) THEN m
  ELSE
    LET key == order[i]
        list == removeInList(m[key], Len(m[key]), 1, m[key], h)
    IN IF Len(list) < 1
       THEN [k \in DOMAIN m \ {key} |-> m[k]]
       ELSE removeLoop(order, i + 1, [m EXCEPT ![key] = list], h)

\* appbus.RemoveHandler, under bus.m
RemoveHandler(h) ==
  /\ ~ReadLocked
  /\ h \in 1..handlerctr
  /\ h \notin removed
  /\ \E order \in Orders(DOMAIN listeners) :
       listeners' = removeLoop(order, 1, listeners, h)
  /\ removed' = removed \cup {h}
  /\ UNCHANGED <<outsideBus, callVars, events, busDone, busClosed,
                 handlerctr, pcBus, fireTopic, pending, ndeq, sent, calls,
                 addErr>>

\* the shutdown of the bus: a send on bus.Done by its owner
SendDone ==
  /\ busDone < DoneCap
  /\ busDone' = busDone + 1
  /\ UNCHANGED <<outsideBus, callVars, listeners, events, busClosed,
                 handlerctr, pcBus, fireTopic, pending, ndeq, sent, calls,
                 removed, addErr>>

\* a receive that takes the topic queued last
Dequeue_Last(q) == [topic |-> q[Len(q)], rest |-> SubSeq(q, 1, Len(q) - 1)]

\* the topic coreloop receives from the channel, and what stays queued
Dequeue(q) == [topic |-> Head(q), rest |-> Tail(q)]

\* fireEvent's loops for the keys from order[i] on: for every key that
\* matches the topic, a call of each listener of its list, in list order,
\* with the map of the match
RECURSIVE fireCalls(_, _, _, _)
fireCalls(order, i, t, n) ==
  IF i > Len(order) THEN <<>>
  ELSE
    LET re == order[i]
        got == RegexpNamedGroupsMatch(re, t)
        list == listeners[re]
    IN (IF got.err # "nil" THEN <<>>
        ELSE [j \in 1..Len(list) |->
                [h |-> list[j], topic |-> t, seq |-> n, groups |-> got.m]])
       \o fireCalls(order, i + 1, t, n)

\* coreloop: case event := <-bus.events, and fireEvent up to its first
\* callback: bus.m.RLock() and the range over the map
CoreloopEvent ==
  /\ pcBus = "select"
  /\ Len(events) > 0
  /\ events' = Dequeue(events).rest
  /\ ndeq' = ndeq + 1
  /\ fireTopic' = Dequeue(events).topic
  /\ \E order \in Orders(DOMAIN listeners) :
       pending' = fireCalls(order, 1, Dequeue(events).topic, ndeq + 1)
  /\ pcBus' = "fire"
  /\ UNCHANGED <<outsideBus, callVars, clientVars, busDone, busClosed, calls>>

\* fireEvent: listener.fn(matches), the next callback runs. It returns; or
\* it panics: nothing between the callback and the top of the coreloop
\* goroutine recovers, so the panic ends the goroutine and the program; or
\* it calls AddListener or RemoveHandler of this bus: the call comes to
\* bus.m.Lock() while fireEvent's bus.m.RLock() is held by the same
\* goroutine until the callback returns, and waits there ("relock")
FireCall ==
  /\ pcBus = "fire"
  /\ Len(pending) > 0
  /\ calls' = Append(calls, Head(pending))
  /\ pending' = Tail(pending)
  /\ \E does \in {"returns", "panics", "subscribes"} :
       pcBus' = CASE does = "returns" -> "fire"
                  [] does = "panics" -> "panicked"
                  [] does = "subscribes" -> "relock"
  /\ UNCHANGED <<outsideBus, callVars, clientVars, events, busDone,
                 busClosed, fireTopic, ndeq>>

\* fireEvent returns: the deferred bus.m.RUnlock(); back to the select
FireReturn ==
  /\ pcBus = "fire"
  /\ Len(pending) = 0
  /\ pcBus' = "select"
  /\ UNCHANGED <<outsideBus, callVars, clientVars, events, busDone,
                 busClosed, fireTopic, pending, ndeq, calls>>

fireEvent == FireCall \/ FireReturn

\* coreloop: case <-bus.Done: the closed flag, and the loop ends
CoreloopDone ==
  /\ pcBus = "select"
  /\ busDone > 0
  /\ busDone' = busDone - 1
  /\ busClosed' = TRUE
  /\ pcBus' = "exited"
  /\ UNCHANGED <<outsideBus, callVars, clientVars, events, fireTopic,
                 pending, ndeq, calls>>

coreloop == CoreloopEvent \/ fireEvent \/ CoreloopDone

\* a panic of the coreloop goroutine ends the program
BusAlive == pcBus # "panicked"

BusNext ==
  \/ BusAlive /\ \E t \in Topics : Emit(t)
  \/ BusAlive /\ \E expr \in Patterns \cup {BadPattern} : AddListener(expr)
  \/ BusAlive /\ \E h \in 1..MaxHandlers : RemoveHandler(h)
  \/ BusAlive /\ SendDone
  \/ BusAlive /\ coreloop

BusSpec == MuxInit /\ [][BusNext]_vars

(* ------------------- an app and its builds: app.NewBuild ---------------- *)
\* the builds of the app: the group and the place in the group's list
AllBuilds == {b \in (DOMAIN builds) \X (1..MaxBuilds) : b[2] <= Len(builds[b[1]])}

\* the NewBuild calls that have not registered a build yet
Registering == {c \in Callers : call[c].pc \in {"generate", "lock"}}

\* app.GetBuild under the read lock: the first build with the token, or the
\* error "Couldn't find build"
GetBuild(token) ==
  IF \E b \in AllBuilds : builds[b[1]][b[2]].token = token
  THEN [found |-> TRUE, err |-> ErrNil]
  ELSE [found |-> FALSE, err |-> ErrNotFound]

\* app.GetBuildHistory: the list of the group, nil for an unknown group
GetBuildHistory(group) ==
  IF group \in DOMAIN builds THEN builds[group] ELSE <<>>

\* build.Group
Group(b) == b.config.Group

\* build.History: the list of the build's group up to the first build that
\* has the build's token, nil when there is none
History(b) ==
  LET history == GetBuildHistory(Group(b))
      hits == {i \in 1..Len(history) : history[i].token = b.token}
  IN IF hits = {} THEN <<>>
     ELSE SubSeq(history, 1, CHOOSE i \in hits : \A j \in hits : i <= j)

\* app.NewBuild up to the token loop: the runner of the config is set
\* ("build.sh" unless the app's config names one)
NewBuildEnter(c, group, config, from) ==
  /\ call[c].pc = "idle"
  /\ Cardinality(AllBuilds) + Cardinality(Registering) < MaxBuilds
  /\ call' = [call EXCEPT ![c] =
                [pc |-> "generate", group |-> group,
                 config |-> [config EXCEPT !.BuildRunner = "build.sh"],
                 token |-> "", err |-> ErrNil, retryOf |-> from, index |-> 0]]
  /\ UNCHANGED <<builds, am, queued, pcHistory, pcDispatch, outsideApp>>

\* an integration calls app.NewBuild(config.Group, config)
AppNewBuild(c) ==
  \E config \in Configs : NewBuildEnter(c, config.Group, config, <<>>)

\* build.NewBuild: app.NewBuild(b.Group(), &config) with a copy of b's config
BuildNewBuild(c) ==
  \E b \in AllBuilds :
    NewBuildEnter(c, Group(builds[b[1]][b[2]]), builds[b[1]][b[2]].config, b)

\* the token loop of app.NewBuild: a token is generated and looked up with
\* GetBuild; when GetBuild has no error (a build has the token) NewBuild
\* returns "" and that nil error; otherwise the build is nil, so the branch
\* that continues the loop is never taken, and the loop is left
NewBuildToken(c) ==
  /\ call[c].pc = "generate"
  /\ am = 0
  /\ \E token \in Tokens :
       LET r == GetBuild(token) IN
       call' = [call EXCEPT ![c] =
                  IF r.err = ErrNil
                  THEN [@ EXCEPT !.pc = "returned", !.token = "", !.err = r.err]
                  ELSE [@ EXCEPT !.pc = "lock", !.token = token]]
  /\ UNCHANGED <<builds, am, queued, pcHistory, pcDispatch, outsideApp>>

\* app.NewBuild: a.m.Lock()
NewBuildLock(c) ==
  /\ call[c].pc = "lock"
  /\ am = 0
  /\ am' = c
  /\ call' = [call EXCEPT ![c] = [@ EXCEPT !.pc = "append"]]
  /\ UNCHANGED <<builds, queued, pcHistory, pcDispatch, outsideApp>>

\* app.NewBuild: newBuild and the append to a.builds[group]
NewBuildAppend(c) ==
  /\ call[c].pc = "append"
  /\ LET g == call[c].group
         build == [token |-> call[c].token, config |-> call[c].config,
                   state |-> buildStateNull]
     IN /\ builds' = [k \in DOMAIN builds \cup {g} |->
                         IF k = g THEN Append(GetBuildHistory(g), build)
                         ELSE builds[k]]
        /\ call' = [call EXCEPT ![c] =
                      [@ EXCEPT !.pc = "start",
                                !.index = Len(GetBuildHistory(g)) + 1]]
  /\ UNCHANGED <<am, queued, pcHistory, pcDispatch, outsideApp>>

\* app.NewBuild: build.Start() of the new build (its goroutine only passes
\* the result on). Start refuses a build that has started or stopped, and
\* NewBuild returns that error (the deferred a.m.Unlock() runs); otherwise
\* Start moves the build to waiting for provisioning; it does not look at
\* the required fields of the config
NewBuildStart(c) ==
  /\ call[c].pc = "start"
  /\ LET g == call[c].group
         i == call[c].index
     IN IF HasStarted(builds[g][i].state) \/ HasStopped(builds[g][i].state)
        THEN /\ call' = [call EXCEPT ![c] =
                           [@ EXCEPT !.pc = "returned", !.token = "",
                                     !.err = ErrProcessAlreadyStarted]]
             /\ am' = 0
             /\ UNCHANGED builds
        ELSE /\ builds' = [builds EXCEPT ![g][i].state =
                                          buildStateWaitingForProvisioning]
             /\ call' = [call EXCEPT ![c] = [@ EXCEPT !.pc = "emit"]]
             /\ UNCHANGED am
  /\ UNCHANGED <<queued, pcHistory, pcDispatch, outsideApp>>

\* build.Start: SendEvent of the provisioning topic, a send on the channel
\* of the bus, which waits while the channel is full. With a deadline of
\* at least a millisecond Start returns nil after it and NewBuild returns
\* the token (the deferred a.m.Unlock() runs)
NewBuildEmit(c) ==
  /\ call[c].pc = "emit"
  /\ queued < EventsCap
  /\ queued' = queued + 1
  /\ IF call[c].config.Deadline < 1
     THEN call' = [call EXCEPT ![c] = [@ EXCEPT !.pc = "warn"]] /\ UNCHANGED am
     ELSE call' = [call EXCEPT ![c] = [@ EXCEPT !.pc = "returned"]] /\ am' = 0
  /\ UNCHANGED <<builds, pcHistory, pcDispatch, outsideApp>>

\* build.Start: logwarnf of the defaulted deadline, one more send on the
\* channel; then Start returns nil and NewBuild the token
NewBuildWarn(c) ==
  /\ call[c].pc = "warn"
  /\ queued < EventsCap
  /\ queued' = queued + 1
  /\ call' = [call EXCEPT ![c] = [@ EXCEPT !.pc = "returned"]]
  /\ am' = 0
  /\ UNCHANGED <<builds, pcHistory, pcDispatch, outsideApp>>

\* the caller has the results of NewBuild
NewBuildReturned(c) ==
  /\ call[c].pc = "returned"
  /\ call' = [call EXCEPT ![c] = IdleCall]
  /\ UNCHANGED <<builds, am, queued, pcHistory, pcDispatch, outsideApp>>

NewBuild(c) ==
  \/ AppNewBuild(c)
  \/ BuildNewBuild(c)
  \/ NewBuildToken(c)
  \/ NewBuildLock(c)
  \/ NewBuildAppend(c)
  \/ NewBuildStart(c)
  \/ NewBuildEmit(c)
  \/ NewBuildWarn(c)
  \/ NewBuildReturned(c)

\* app.GetBuildHistory: a.builds[group] is read with no lock taken; the
\* read begins
GetBuildHistoryBegin(group) ==
  /\ pcHistory = ""
  /\ pcHistory' = group
  /\ UNCHANGED <<builds, am, call, queued, pcDispatch, outsideApp>>

\* app.GetBuildHistory: the read ends
GetBuildHistoryEnd ==
  /\ pcHistory # ""
  /\ pcHistory' = ""
  /\ UNCHANGED <<builds, am, call, queued, pcDispatch, outsideApp>>

\* build.History of a build of the app, which calls GetBuildHistory
HistoryCall ==
  \/ \E b \in AllBuilds : GetBuildHistoryBegin(Group(builds[b[1]][b[2]]))
  \/ GetBuildHistoryEnd

AppNext ==
  \/ \E c \in Callers : NewBuild(c)
  \/ HistoryCall

AppSpec == MuxInit /\ [][AppNext]_vars

(* ------------------ an app, its bus and the callbacks ------------------- *)
\* app.SendEvent by the other goroutines of the app (the run goroutines of
\* its builds, their logs): one more topic in the channel
SendEventOther ==
  /\ queued < EventsCap
  /\ queued' = queued + 1
  /\ UNCHANGED <<builds, am, call, pcHistory, pcDispatch, outsideApp>>

\* coreloop: a topic is received and dispatched; its listeners either
\* return without a call on the app, or call app.GetBuild
\* (Github.onBuildStarted, Slack.onBuildComplete), or send a topic of their
\* own with app.SendEvent
DispatchEvent ==
  /\ pcDispatch = "select"
  /\ queued > 0
  /\ queued' = queued - 1
  /\ pcDispatch' \in {"select", "getBuild", "emit"}
  /\ UNCHANGED <<builds, am, call, pcHistory, outsideApp>>

\* the callback's app.SendEvent: appbus.Emit's send on bus.events, which
\* waits while the channel is full; then the callback and fireEvent return
DispatchEmit ==
  /\ pcDispatch = "emit"
  /\ queued < EventsCap
  /\ queued' = queued + 1
  /\ pcDispatch' = "select"
  /\ UNCHANGED <<builds, am, call, pcHistory, outsideApp>>

\* the callback's app.GetBuild: a.m.RLock(), which waits while NewBuild
\* holds a.m; then the callback and fireEvent return
DispatchGetBuild ==
  /\ pcDispatch = "getBuild"
  /\ am = 0
  /\ pcDispatch' = "select"
  /\ UNCHANGED <<builds, am, call, queued, pcHistory, outsideApp>>

\* one goroutine that calls NewBuild, the other senders and the bus
AppBusNext ==
  \/ NewBuild(1)
  \/ SendEventOther
  \/ DispatchEvent
  \/ DispatchGetBuild
  \/ DispatchEmit

AppBusSpec == MuxInit /\ [][AppBusNext]_vars

(* ---------------- the reference count: build.Ref, build.Unref ----------- *)
\* runBuildSync: the provisioned directory becomes the build's workspace
SetBuildDirectory ==
  /\ buildDirectory = ""
  /\ onDisk = {}
  /\ buildDirectory' = Workspace
  /\ onDisk' = {Workspace}
  /\ UNCHANGED <<ref, pcUnref, zeroed, refCalls, outsideRef>>

\* refcount.Add: atomic.AddUint64(ref, 1)
Add(n) == (n + 1) % RefModulus

\* refcount.Remove: atomic.AddUint64(ref, ^uint64(0)), which wraps at zero
Remove(n) == (n + RefModulus - 1) % RefModulus

\* build.Ref
Ref(h) ==
  /\ pcUnref[h] = "idle"
  /\ refCalls < MaxRefCalls
  /\ refCalls' = refCalls + 1
  /\ ref' = Add(ref)
  /\ UNCHANGED <<buildDirectory, onDisk, pcUnref, zeroed, outsideRef>>

\* build.Unref: b.ref.Remove()
UnrefRemove(h) ==
  /\ pcUnref[h] = "idle"
  /\ refCalls < MaxRefCalls
  /\ refCalls' = refCalls + 1
  /\ ref' = Remove(ref)
  /\ zeroed' = [zeroed EXCEPT ![h] = (ref' = 0)]
  /\ pcUnref' = [pcUnref EXCEPT ![h] = "get"]
  /\ UNCHANGED <<buildDirectory, onDisk, outsideRef>>

\* build.Unref: if b.ref.Get() < 1, a second atomic operation on the count
UnrefGet(h) ==
  /\ pcUnref[h] = "get"
  /\ pcUnref' = [pcUnref EXCEPT ![h] = IF ref < 1 THEN "cleanup" ELSE "idle"]
  /\ UNCHANGED <<ref, buildDirectory, onDisk, zeroed, refCalls, outsideRef>>

\* build.Unref under b.m: os.RemoveAll of the workspace if there is one,
\* and the return
UnrefCleanup(h) ==
  /\ pcUnref[h] = "cleanup"
  /\ pcUnref' = [pcUnref EXCEPT ![h] = "idle"]
  /\ IF buildDirectory # ""
     THEN onDisk' = onDisk \ {buildDirectory} /\ buildDirectory' = ""
     ELSE UNCHANGED <<buildDirectory, onDisk>>
  /\ UNCHANGED <<ref, zeroed, refCalls, outsideRef>>

Unref(h) == UnrefRemove(h) \/ UnrefGet(h) \/ UnrefCleanup(h)

RefNext ==
  \/ SetBuildDirectory
  \/ \E h \in Holders : Ref(h)
  \/ \E h \in Holders : Unref(h)

RefSpec == MuxInit /\ [][RefNext]_vars

(* --------------- the composition of the apps: GetApps ------------------- *)
\* append(integrations[:i], integrations[i+1:]...) on a slice of length n
\* that starts at the head of the array: the capacity suffices, so the
\* elements after i are copied one place down inside the array and the
\* last place keeps its element
removeAt(array, n, i) ==
  [k \in 1..Len(array) |-> IF k >= i /\ k < n THEN array[k + 1] ELSE array[k]]

\* the enabledIntegrations loop of GetApps on the slice array[1..n]: the
\* first integration that is not enabled is removed and the scan starts
\* again, until the scan finds none
RECURSIVE removeDisabled(_, _, _)
removeDisabled(array, n, enabled) ==
  LET disabled == {i \in 1..n : array[i] \notin enabled}
  IN IF disabled = {} THEN [array |-> array, len |-> n]
     ELSE removeDisabled(removeAt(array, n,
                                  CHOOSE i \in disabled : \A j \in disabled : i <= j),
                         n - 1, enabled)

\* GetIntegrations(): globalIntegrationsCache[:], a slice of the cache's own
\* array
GetIntegrations == [array |-> globalIntegrationsCache,
                    len |-> Len(globalIntegrationsCache)]

\* the integrations of a composed app: its slice of the shared array
IntegrationsOf(a) == SubSeq(globalIntegrationsCache, 1, a.len)

\* one round of the loop of GetApps: the app of the next directory is made
\* with the integrations its allow-list leaves
GetAppsRound(enabled) ==
  /\ Len(apps) < MaxApps
  /\ LET all == GetIntegrations
         r == IF Cardinality(enabled) > 0
              THEN removeDisabled(all.array, all.len, enabled)
              ELSE all
     IN /\ globalIntegrationsCache' = r.array
        /\ apps' = Append(apps, [enabled |-> enabled, len |-> r.len])
  /\ UNCHANGED outsideCompose

GetApps == \E enabled \in EnabledLists : GetAppsRound(enabled)

ComposeSpec == MuxInit /\ [][GetApps]_vars

(* ------------------- the persistent cache: StoreCache ------------------- *)
\* StoreCache: cache[key] = data under cacheLock
StoreWrite(t, key, data) ==
  /\ pcStore[t] = "idle"
  /\ storeCalls < MaxStores
  /\ cacheReaders = {}
  /\ storeCalls' = storeCalls + 1
  /\ storeArgs' = [storeArgs EXCEPT ![t] = [key |-> key, data |-> data]]
  /\ cache' = [k \in DOMAIN cache \cup {key} |->
                 IF k = key THEN data ELSE cache[k]]
  /\ pcStore' = [pcStore EXCEPT ![t] = "check"]
  /\ UNCHANGED <<cacheFile, cacheSyncCheck, cacheSyncLock, cacheReaders,
                 outsideCache>>

\* atomic.LoadUint64(&cacheSyncCheck) > 0
SyncInProgress(flag) == flag > 0

\* StoreCache: the call returns when a write to disk is in progress
StoreCheck(t) ==
  /\ pcStore[t] = "check"
  /\ pcStore' = [pcStore EXCEPT ![t] =
                   IF SyncInProgress(cacheSyncCheck) THEN "idle" ELSE "synclock"]
  /\ UNCHANGED <<cache, cacheFile, cacheSyncCheck, cacheSyncLock,
                 cacheReaders, storeArgs, storeCalls, outsideCache>>

\* StoreCache: cacheSyncLock.Lock()
StoreSyncLock(t) ==
  /\ pcStore[t] = "synclock"
  /\ cacheSyncLock = 0
  /\ cacheSyncLock' = t
  /\ pcStore' = [pcStore EXCEPT ![t] = "setcheck"]
  /\ UNCHANGED <<cache, cacheFile, cacheSyncCheck, cacheReaders, storeArgs,
                 storeCalls, outsideCache>>

\* StoreCache: atomic.StoreUint64(&cacheSyncCheck, 1)
StoreSetCheck(t) ==
  /\ pcStore[t] = "setcheck"
  /\ cacheSyncCheck' = 1
  /\ pcStore' = [pcStore EXCEPT ![t] = "marshal"]
  /\ UNCHANGED <<cache, cacheFile, cacheSyncLock, cacheReaders, storeArgs,
                 storeCalls, outsideCache>>

\* StoreCache: cacheLock.RLock(), json.Marshal(cache) and WriteFile
StoreWriteFile(t) ==
  /\ pcStore[t] = "marshal"
  /\ cacheReaders' = cacheReaders \cup {t}
  /\ cacheFile' = cache
  /\ pcStore' = [pcStore EXCEPT ![t] = "runlock"]
  /\ UNCHANGED <<cache, cacheSyncCheck, cacheSyncLock, storeArgs, storeCalls,
                 outsideCache>>

\* the deferred calls, last first: cacheLock.RUnlock()
StoreRUnlock(t) ==
  /\ pcStore[t] = "runlock"
  /\ cacheReaders' = cacheReaders \ {t}
  /\ pcStore' = [pcStore EXCEPT ![t] = "syncunlock"]
  /\ UNCHANGED <<cache, cacheFile, cacheSyncCheck, cacheSyncLock, storeArgs,
                 storeCalls, outsideCache>>

\* cacheSyncLock.Unlock()
StoreSyncUnlock(t) ==
  /\ pcStore[t] = "syncunlock"
  /\ cacheSyncLock' = 0
  /\ pcStore' = [pcStore EXCEPT ![t] = "clearcheck"]
  /\ UNCHANGED <<cache, cacheFile, cacheSyncCheck, cacheReaders, storeArgs,
                 storeCalls, outsideCache>>

\* atomic.StoreUint64(&cacheSyncCheck, 0), and the return
StoreClearCheck(t) ==
  /\ pcStore[t] = "clearcheck"
  /\ cacheSyncCheck' = 0
  /\ pcStore' = [pcStore EXCEPT ![t] = "idle"]
  /\ UNCHANGED <<cache, cacheFile, cacheSyncLock, cacheReaders, storeArgs,
                 storeCalls, outsideCache>>

StoreCache(t) ==
  \/ \E key \in CacheKeys, data \in CacheData : StoreWrite(t, key, data)
  \/ StoreCheck(t)
  \/ StoreSyncLock(t)
  \/ StoreSetCheck(t)
  \/ StoreWriteFile(t)
  \/ StoreRUnlock(t)
  \/ StoreSyncUnlock(t)
  \/ StoreClearCheck(t)

CacheNext == \E t \in Storers : StoreCache(t)

CacheSpec == MuxInit /\ [][CacheNext]_vars

(* ------------------- the token generator: generateToken ---------------- *)
\* the digits of the counter and of the clock, for the text of a token
Digit(n) == CASE n = 0 -> "0" [] n = 1 -> "1" [] n = 2 -> "2" [] n = 3 -> "3"
              [] n = 4 -> "4" [] n = 5 -> "5" [] n = 6 -> "6" [] n = 7 -> "7"
              [] OTHER -> "8"

\* the first 16 characters of the base64 text of sha256(salt, nano, count):
\* the digest is not computed; a token is the text of what was hashed, so
\* that two tokens are equal exactly when the same time and the same counter
\* value were hashed
Sum(nano, count) == Digit(nano) \o "-" \o Digit(count)

\* an increment that is lost
AddUint64_Lost(n) == n

\* atomic.AddUint64(&ctr, 1): the new value
AddUint64(n) == (n + 1) % CtrModulus

\* generateToken: time.Now().UTC().UnixNano() is written to the hasher
GenerateNow(g) ==
  /\ pcGen[g] = "idle"
  /\ ids[g] = ""
  /\ \E nano \in 1..MaxNano :
       /\ \A h \in Generators : genTime[h] <= nano
       /\ genTime' = [genTime EXCEPT ![g] = nano]
  /\ pcGen' = [pcGen EXCEPT ![g] = "ctr"]
  /\ UNCHANGED <<ctr, genCtr, ids, outsideToken>>

\* generateToken: atomic.AddUint64(&ctr, 1) is written to the hasher
GenerateCtr(g) ==
  /\ pcGen[g] = "ctr"
  /\ ctr' = AddUint64(ctr)
  /\ genCtr' = [genCtr EXCEPT ![g] = ctr']
  /\ pcGen' = [pcGen EXCEPT ![g] = "sum"]
  /\ UNCHANGED <<genTime, ids, outsideToken>>

\* generateToken: the token is returned and stored in ids[index]
GenerateReturn(g) ==
  /\ pcGen[g] = "sum"
  /\ ids' = [ids EXCEPT ![g] = Sum(genTime[g], genCtr[g])]
  /\ pcGen' = [pcGen EXCEPT ![g] = "idle"]
  /\ UNCHANGED <<ctr, genTime, genCtr, outsideToken>>

generateToken(g) == GenerateNow(g) \/ GenerateCtr(g) \/ GenerateReturn(g)

TokenNext == \E g \in Generators : generateToken(g)

TokenSpec == MuxInit /\ [][TokenNext]_vars

(* ------------------------------- claims -------------------------------- *)

\* C1: the lifecycle topics of the build are emitted in the order
\* provisioning, started, complete: no started before provisioning, and no
\* provisioning or started after a complete, whatever Stop() calls interleave.
C1_LifecycleOrder ==
  \A i, j \in 1..Len(emitted) :
    i < j =>
      /\ ~(emitted[i] = "started" /\ emitted[j] = "provisioning")
      /\ ~(emitted[i] = "complete" /\ emitted[j] \in {"provisioning", "started"})

\* C2: a build whose Start() returned nil eventually is in state finished
\* with its complete topic emitted.
C2_Termination ==
  (okStarts >= 1) ~> (HasStopped(state) /\ Emitted("complete"))

\* C3: the complete topic of the build is emitted exactly once: never twice,
\* and once when the run goroutine has ended.
C3_CompleteOnce ==
  /\ Count("complete") <= 1
  /\ pcRun = "done" => Count("complete") = 1

\* C4: Start() succeeds at most once, and a Start() in a state other than
\* null returns process-already-started, emits nothing and changes no state.
C4_StartOnce ==
  /\ [](okStarts <= 1)
  /\ [][\A s \in Starters :
          (pcStart[s] = "locked" /\ pcStart'[s] = "unlock"
             /\ state # buildStateNull)
          => /\ retStart'[s] = ErrProcessAlreadyStarted
             /\ UNCHANGED <<buildVars, emitted, nlog, pcRun, okStarts>>]_vars

\* a second Start() found the build waiting for provisioning and was refused
C4_Witness ==
  \E s \in Starters :
    /\ pcStart[s] = "unlock"
    /\ retStart[s] = ErrProcessAlreadyStarted
    /\ state = buildStateWaitingForProvisioning
    /\ okStarts = 1

\* C5: a Stop() called in a state other than started returns
\* process-already-finished at its check and leaves the state, the exit code
\* and the emitted topics as they were.
C5_StopOnlyInStarted ==
  [][\A t \in Stoppers :
       (pcStop[t] \in {"idle", "check"} /\ pcStop'[t] # pcStop[t]
          /\ state # buildStateStarted)
       => /\ pcStop'[t] = Returned(t)
          /\ StopCheckResult(state) = ErrProcessAlreadyFinished
          /\ UNCHANGED <<state, exitCode, emitted>>]_vars

\* C6: when the child is still running after the deadline has elapsed since
\* the supervision loop was entered, the supervisor has invoked Stop().
C6_DeadlineEnforced ==
  (pcRun = "select" /\ child = "running" /\ sinceLoop > deadline)
    => dlStopInvoked

\* C7: the exit code of a finished build is 0, 1, 500, 501 or 505, where 501
\* means provisioning failed, 500 that the deadline's Stop() failed, 1 that
\* the child exited non-zero, and 0 that the child was launched and exited
\* with status zero.
C7_ExitCodes ==
  HasStopped(state) =>
    /\ exitCode \in {CodeSuccess, CodeChildFailed, CodeStopFailed,
                     CodeProvision, CodeLostHandle}
    /\ exitCode = CodeProvision => runErr = "provision"
    /\ exitCode = CodeStopFailed => runErr = "stop"
    /\ exitCode = CodeChildFailed => child = "reaped" /\ childCode # 0
    /\ exitCode = CodeSuccess => child = "reaped" /\ childCode = 0

\* C8 as stated: ExitCode() returns process-not-finished in every state in
\* which the complete topic has not been emitted yet.
C8_NotFinishedUntilComplete ==
  ~Emitted("complete") => ExitCode.err = ErrProcessNotFinished

\* C8 amended: ExitCode() returns process-not-finished in every state before
\* the state of the build was first set to finished, and no complete topic
\* is emitted before that.
C8_NotFinishedUntilFinished ==
  /\ ~everFinished => ExitCode.err = ErrProcessNotFinished
  /\ Emitted("complete") => everFinished

\* the child runs, the build was never finished, ExitCode() is refused
C8_Witness ==
  /\ state = buildStateStarted
  /\ child = "running"
  /\ ~everFinished
  /\ ExitCode.err = ErrProcessNotFinished

\* C9: once ExitCode() returns a code with a nil error, it returns the same
\* code with a nil error ever after.
C9_ExitCodeStable ==
  [][ExitCode.err = ErrNil => ExitCode' = ExitCode]_vars

C11_Provisioning ==
  /\ \A ints \in IntegrationLists :
       LET provided == ProvideForCalls(ints, 1) IN
         /\ \A k \in 1..Len(provided) : IsProviderForBoth(ints[provided[k]])
         /\ \A k \in 1..(Len(provided) - 1) :
              provided[k] < provided[k + 1] /\ ~ints[provided[k]].ok
  /\ (pcRun = "done" /\ runErr = "provision") =>
       /\ ExitCode = [code |-> CodeProvision, err |-> ErrNil]
       /\ Emitted("complete")
       /\ child = "none"

IsPrefix(a, b) == Len(a) <= Len(b) /\ a = SubSeq(b, 1, Len(a))

\* C12: what a reader has received is exactly the first position bytes of
\* the sequence the source produced, for every reader and every interleaving
\* (so two readers at one offset have read the same bytes); the cache is only
\* appended to, and no position decreases.
C12_FanOutConsistency ==
  /\ [](\A r \in Readers :
          /\ position[r] <= Len(readCache)
          /\ received[r] = SubSeq(Produced, 1, position[r]))
  /\ [][/\ IsPrefix(readCache, readCache')
        /\ \A r \in Readers : position'[r] >= position[r]]_vars

\* the readers are at different offsets inside a cache of three bytes or more
C12_Witness ==
  \E r1, r2 \in Readers :
    /\ Len(readCache) >= 3
    /\ position[r1] = Len(readCache)
    /\ 0 < position[r2] /\ position[r2] < position[r1]

\* C13: once the source has returned EOF or an error, every reader whose
\* caller keeps calling Read receives (0, EOF) in the end: no Read stays
\* blocked for ever.
C13_EOFDelivery ==
  \A r \in Readers : (readClosed /\ born[r] # "no") ~> sawEOF[r]

\* C14: a reader has received (0, EOF) only with the closed flag set and its
\* position at the final length of the cache (no byte is appended after a
\* reader received EOF, whatever the source's last Read returned), and after
\* its first (0, EOF) no Read of it returns bytes.
C14_EOFExact ==
  \A r \in Readers :
    sawEOF[r] =>
      /\ readClosed
      /\ position[r] = Len(readCache)
      /\ lastRead[r] # "data"

\* C16: NewReader makes a reader at offset 0 and leaves the other readers'
\* positions alone, at whatever moment it is called; a reader made
\* mid-stream or after the stream closed reads the cache from its first
\* byte on.
C16_Restartable ==
  /\ [](\A r \in Readers :
          born[r] \in {"mid", "closed"} =>
            received[r] = SubSeq(readCache, 1, Len(received[r])))
  /\ [][\A r \in Readers :
          (born[r] = "no" /\ born'[r] # "no") =>
            /\ position'[r] = 0
            /\ received'[r] = <<>>
            /\ \A q \in Readers \ {r} : position'[q] = position[q]]_vars
  /\ [][\A r \in Readers :
          (position[r] = 0 /\ position'[r] > 0) =>
            received'[r][1] = readCache[1]]_vars

\* a reader made mid-stream and one made after the close have both read
\* the whole cache
C16_Witness ==
  \E r, q \in Readers :
    /\ born[r] = "mid" /\ born[q] = "closed"
    /\ Len(readCache) >= 2
    /\ received[r] = readCache /\ received[q] = readCache

\* C15: concurrent Reads by several readers never deadlock one another: a
\* reader whose pending Read has bytes at or after its position is never
\* left holding the condition's lock and waiting for stdpipes.m while the
\* holder of stdpipes.m waits for the condition's lock.
C15_ReaderIndependence ==
  \A r \in Readers :
    (pcReader[r] = "loopLockM" /\ position[r] < Len(readCache)) =>
      ~\E q \in Readers \ {r} : pm = q /\ pcReader[q] = "lockL2"

\* the callbacks invoked in the dispatch of the n-th topic received, in order
CallsOf(n) == SelectSeq(calls, LAMBDA c : c.seq = n)
\* the handlers registered under a pattern that matches topic t
Matching(t) ==
  {h \in 1..MaxHandlers :
     \E k \in DOMAIN listeners :
       MatchString(k, t) /\ \E j \in 1..Len(listeners[k]) : listeners[k][j] = h}
\* the pattern a call's handler is registered under
KeyOf(h) ==
  CHOOSE k \in DOMAIN listeners : \E j \in 1..Len(listeners[k]) : listeners[k][j] = h

\* C17: when the dispatch of a topic is over, every listener registered under
\* a pattern that matches the topic has been invoked exactly once, with the
\* topic's captures under the pattern's group names, and no listener of a
\* pattern that does not match has been invoked.
C17_EventRouting ==
  (pcBus = "fire" /\ pending = <<>>) =>
    LET done == CallsOf(ndeq) IN
      /\ \A h \in 1..MaxHandlers :
           Cardinality({i \in 1..Len(done) : done[i].h = h})
             = IF h \in Matching(fireTopic) THEN 1 ELSE 0
      /\ \A i \in 1..Len(done) :
           LET k == KeyOf(done[i].h)
               names == SubexpNames(k)
               sub == FindStringSubmatch(k, fireTopic)
           IN /\ done[i].topic = fireTopic
              /\ \A g \in 2..Len(names) :
                   names[g] # "" =>
                     /\ names[g] \in DOMAIN done[i].groups
                     /\ done[i].groups[names[g]] = sub[g]

\* a dispatch is over in which listeners of two patterns were invoked and a
\* listener of a third was not
C17_Witness ==
  /\ pcBus = "fire" /\ pending = <<>>
  /\ Len(CallsOf(ndeq)) = 2
  /\ Cardinality(DOMAIN listeners) = 3

\* C18: the topics are dispatched in the order Emit queued them, and the
\* callbacks of one topic are all made before the first callback of the
\* next: the calls of two dispatches are never interleaved.
C18_FifoOrder ==
  /\ pcBus = "fire" => fireTopic = sent[ndeq]
  /\ \A i \in 1..Len(calls) : calls[i].topic = sent[calls[i].seq]
  /\ \A i, j \in 1..Len(calls) : i < j => calls[i].seq <= calls[j].seq

\* two different topics were queued together and both have been dispatched
\* to a listener
C18_Witness ==
  /\ Len(sent) = 2 /\ sent[1] # sent[2]
  /\ \E i, j \in 1..Len(calls) : calls[i].seq = 1 /\ calls[j].seq = 2

\* C19: the callbacks of one dispatch are invoked in the order of
\* registration, that is by increasing handler id, also when they are
\* registered under different patterns.
C19_RegistrationOrder ==
  \A i, j \in 1..Len(calls) :
    (i < j /\ calls[i].seq = calls[j].seq) => calls[i].h < calls[j].h

\* C20: no callback is invoked for a handler RemoveHandler has returned for;
\* RemoveHandler(h) takes h out of its pattern's list and leaves every other
\* listener where it was; and no pattern without listeners is a key.
C20_Removal ==
  /\ [](\A k \in DOMAIN listeners :
          /\ Len(listeners[k]) >= 1
          /\ \A j \in 1..Len(listeners[k]) : listeners[k][j] \notin removed)
  /\ [][calls' # calls => calls'[Len(calls')].h \notin removed]_vars
  /\ [][removed' # removed =>
          \A k \in DOMAIN listeners :
            LET kept == SelectSeq(listeners[k], LAMBDA h : h \notin removed')
            IN IF kept = <<>> THEN k \notin DOMAIN listeners'
               ELSE k \in DOMAIN listeners' /\ listeners'[k] = kept]_vars

\* the first of three listeners of a pattern was invoked, then removed, and
\* a later dispatch invoked the two that are left
C20_Witness ==
  /\ 1 \in removed
  /\ \E k \in DOMAIN listeners : listeners[k] = <<2, 3>>
  /\ \E i \in 1..Len(calls) : calls[i].h = 1 /\ calls[i].seq = 1
  /\ Len(CallsOf(2)) = 2

\* C21: once coreloop has handled Done, the closed flag stays set and the
\* loop dequeues nothing more; an AddListener call made from then on returns
\* the error "bus is closed" and neither issues a handler id nor gets as far
\* as bus.m, and an Emit call made from then on returns at the test of the
\* flag: it never gets as far as the send on bus.events, where it could
\* block.
C21_BusShutdown ==
  [][busClosed =>
       /\ busClosed'
       /\ pcBus' = "exited" /\ calls' = calls /\ ndeq' = ndeq
       /\ adding' \subseteq adding
       /\ inflight' \subseteq inflight
       /\ adding' = adding =>
            /\ handlerctr' = handlerctr
            /\ listeners' = listeners \/ removed' # removed
       /\ inflight' = inflight => events' = events /\ sent' = sent
       /\ (addErr' # addErr /\ adding' = adding) => addErr' = "bus is closed"]_vars

\* on a closed bus with a listener, an AddListener call was refused and an
\* Emit call returned at once, with no call pending from before the closing
C21_Witness ==
  /\ busClosed
  /\ addErr = "bus is closed"
  /\ dropped # {}
  /\ adding = {} /\ inflight = {}
  /\ handlerctr >= 1

\* C22: a callback that panics does not take down the bus: the panic never
\* leaves fireEvent, so coreloop is still there to call the subscribers left
\* in the dispatch and to dequeue the topics emitted later.
C22_PanicGuard ==
  pcBus = "panicked" => FALSE

\* C23: the map a callback gets has exactly the named groups of its
\* pattern as keys, each with the substring the group matched: a pattern
\* without named groups gives the empty map, also when it has unnamed
\* groups.
C23_NamedGroupMap ==
  \A i \in 1..Len(calls) :
    LET k == KeyOf(calls[i].h)
        names == SubexpNames(k)
        sub == FindStringSubmatch(k, calls[i].topic)
        named == {g \in 2..Len(names) : names[g] # ""}
    IN calls[i].h \notin removed =>
         /\ DOMAIN calls[i].groups = {names[g] : g \in named}
         /\ \A g \in named : calls[i].groups[names[g]] = sub[g]

\* C24: no two builds registered in the app have the same token, whatever
\* tokens generateToken returns and however the NewBuild calls interleave.
C24_TokenUniqueness ==
  \A b1, b2 \in AllBuilds :
    b1 # b2 => builds[b1[1]][b1[2]].token # builds[b2[1]][b2[2]].token

\* C25: a NewBuild call that has returned has either a non-nil error or the
\* non-empty token of the build it registered and started: a generated
\* token that a build of the app has already makes it generate another,
\* never return.
C25_TokenRetry ==
  \A c \in Callers :
    call[c].pc = "returned" =>
      \/ call[c].err # ErrNil
      \/ /\ call[c].token # ""
         /\ call[c].index \in 1..Len(GetBuildHistory(call[c].group))
         /\ builds[call[c].group][call[c].index].token = call[c].token
         /\ HasStarted(builds[call[c].group][call[c].index].state)

\* C27: when b.NewBuild() has returned, a build with a token no other build
\* has is registered in b's group; its History() is the list of the group up
\* to and including it; and History() of b is still the list up to and
\* including b.
C27_RetryHistory ==
  \A c \in Callers :
    (call[c].pc = "returned" /\ call[c].retryOf # <<>>) =>
      LET g == call[c].retryOf[1]
          i == call[c].retryOf[2]
          j == call[c].index
      IN /\ call[c].group = g
         /\ j \in (i + 1)..Len(builds[g])
         /\ \A b \in AllBuilds :
              b # <<g, j>> => builds[b[1]][b[2]].token # builds[g][j].token
         /\ History(builds[g][j]) = SubSeq(builds[g], 1, j)
         /\ History(builds[g][i]) = SubSeq(builds[g], 1, i)

\* C28: a build that has left state null has a config in which Title, URL,
\* HeadRepo, HeadHash, BaseRepo, BaseHash, Group and BuildRunner are all
\* set, that is one checkConfig accepts.
C28_RequiredConfig ==
  \A b \in AllBuilds :
    builds[b[1]][b[2]].state # buildStateNull =>
      checkConfig(builds[b[1]][b[2]].config) = ErrNil

\* C26: when an Unref() that brought the count to zero returns and the count
\* is still zero, the workspace directory does not exist; and the workspace
\* is removed only while the count is zero.
C26_WorkspaceCleanup ==
  [][/\ \A h \in Holders :
          (pcUnref[h] # "idle" /\ pcUnref'[h] = "idle" /\ zeroed[h] /\ ref = 0)
            => onDisk' = {}
     /\ onDisk' # onDisk /\ onDisk' = {} => ref = 0]_vars

\* C29: the integrations of every composed app are the registered
\* integrations whose identifier is in the app's enabledIntegrations (all of
\* them for an empty list), in the order of registration, each once.
C29_AllowList ==
  \A a \in 1..Len(apps) :
    IntegrationsOf(apps[a]) =
      SelectSeq(Registered,
                LAMBDA id : apps[a].enabled = {} \/ id \in apps[a].enabled)

\* C30: when every StoreCache call made has returned, the cache file holds
\* every key stored, with the value stored last.
C30_PersistentCache ==
  (storeCalls > 0 /\ \A t \in Storers : pcStore[t] = "idle") => cacheFile = cache

\* C31: the generateToken calls that have passed the increment have hashed
\* pairwise distinct counter values, and the counter is their number; so
\* when all the calls have returned the counter is the number of calls and
\* the tokens are pairwise distinct.
C31_TokenCounter ==
  LET counted == {g \in Generators : pcGen[g] = "sum" \/ ids[g] # ""}
  IN /\ ctr = Cardinality(counted)
     /\ \A g, h \in counted : g # h => genCtr[g] # genCtr[h]
     /\ (\A g \in Generators : ids[g] # "") =>
          /\ ctr = NumGenerators
          /\ \A g, h \in Generators : g # h => ids[g] # ids[h]

\* all the calls have returned, and all of them hashed the same time
C31_Witness ==
  /\ \A g \in Generators : ids[g] # "" /\ pcGen[g] = "idle"
  /\ \A g, h \in Generators : genTime[g] = genTime[h]

\* C32: the state of the build only moves forward along null, waiting for
\* provisioning, started, finished, and a finished build stays finished,
\* however the run-loop and the Stop() calls interleave.
C32_StateMonotonic ==
  [][/\ state' >= state
     /\ HasStopped(state) => state' = state]_vars

\* C33: the started topic is emitted only when the child has been launched:
\* no started topic is on the bus after cmd.Start() has failed.
C33_StartedMeansLaunched ==
  Emitted("started") => runErr # "launch"

\* C34: when a listener is invoked for the complete topic of the build, the
\* build is finished and ExitCode() has a nil error; and the code it returns
\* is final: what ExitCode() returns does not change afterwards.
C34_CompleteImpliesFinished ==
  [][/\ heard' > heard => HasStopped(state) /\ ExitCode.err = ErrNil
     /\ heard > 0 => ExitCode' = ExitCode]_vars

\* C35: BuildTime() is zero while the build is not finished; once it is
\* finished, by whatever path, the start time is not after the end time and
\* BuildTime() is end - start, which is then not negative.
C35_BuildTime ==
  /\ ~HasStopped(state) => BuildTime = 0
  /\ HasStopped(state) =>
       /\ buildStartTime <= buildEndTime
       /\ BuildTime = buildEndTime - buildStartTime
       /\ BuildTime >= 0

\* C36: the builds map is read only under the lock of the app: no read of
\* GetBuildHistory is in progress while a NewBuild call that holds a.m is
\* about to append to the map.
C36_BuildsMapLocking ==
  pcHistory # "" => \A c \in Callers : call[c].pc # "append"

\* C37: a NewBuild call always returns: it is never in the send of Start()
\* on a full channel, holding a.m, while the coreloop, the only receiver of
\* the channel, is in a callback that waits for a.m in GetBuild; from such
\* a state neither goes on.
C37_NewBuildTerminates ==
  \A c \in Callers :
    ~ /\ call[c].pc \in {"emit", "warn"}
      /\ am = c
      /\ queued = EventsCap
      /\ pcDispatch = "getBuild"

\* C40: the reference count never wraps below zero: an Unref() takes one
\* from a count above zero and leaves a count of zero at zero.
C40_NoUnderflow ==
  [][\A h \in Holders :
       (pcUnref[h] = "idle" /\ pcUnref'[h] = "get") =>
         ref' = IF ref = 0 THEN 0 ELSE ref - 1]_vars

\* C39: a callback that calls Listen or RemoveEventHandler on its own bus
\* gets the call back: the coreloop goroutine is never left waiting, inside
\* a callback, for the lock that its own dispatch holds.
C39_ReentrantSubscription ==
  pcBus # "relock"

\* C38: every Emit returns: no Emit waits on the full channel when nothing
\* can receive from it. An Emit made inside a callback is made by the
\* coreloop goroutine, the only receiver of bus.events.
C38_EmitReturns ==
  ~ /\ pcDispatch = "emit"
    /\ queued = EventsCap

====
